---- MODULE Spec2Model ----
(***************************************************************************)
(* A model of the iso-rs image formatter and reader (crates/iso-rs).       *)
(*                                                                         *)
(* Strings and byte buffers are sequences of byte values (0..255); a path  *)
(* such as "/A/BC" is <<47, 65, 47, 66, 67>>.  The sink is a seekable byte *)
(* store: `sink` maps every sector that has been written to the bytes of   *)
(* that sector up to the last byte written in it; all other bytes hold the *)
(* zero fill the caller sized the sink with (iso-cli: File::set_len).      *)
(***************************************************************************)
EXTENDS Integers, Sequences, FiniteSets, TLC

VARIABLES
    ops,                \* FormatOptions {files, el_torito}: the input of format_new
    now,                \* the clock: the readings DecDateTime::now gets, in call order
    pc,                 \* position of format_new / the reader
    sink,               \* the bytes of the sink, per written sector
    sink_len,           \* length of the sink in bytes
    pos,                \* the sink's seek position
    volume_descriptors, \* VolumeDescriptorList.descriptors
    files,              \* FileWriter.files: the flat-map of the tree
    written_files,      \* FileWriter.written_files: path -> DirectoryRef
    idx,                \* loop index into `files` of the pass in progress
    stack,              \* the work stack of the directory backpatch
    root_dir,           \* DirectoryRef returned by write_directory_data
    path_table,         \* DirectoryRef returned by write_path_table
    table_entries,      \* the PathTableEntry list built by write_path_table
    placed,             \* history: every placement, with the cursor it began at
    iso,                \* the IsoImage handle returned by IsoImage::new
    dir,                \* the IsoDirectory handle the reader holds
    out,                \* the result of the reader's last call
    rec,                \* pure-function harness: a DirectoryRecord built by new
    entry               \* pure-function harness: a BootValidationEntry and its verdict

vars == <<ops, now, pc, sink, sink_len, pos, volume_descriptors, files,
          written_files, idx, stack, root_dir, path_table, table_entries,
          placed, iso, dir, out, rec, entry>>

-----------------------------------------------------------------------------
(* Bounds of the model *)

\* number of files and directories below the root of an input tree
MaxNodes == 3
\* the longest string handed to IsoStr::from_str
MaxStrLen == 2
\* the largest fixed length N of an IsoStr<C, N>
MaxStrWidth == 2
\* the number of children of the root of a wide tree
WideChildren == 8
\* the length of the identifier of every child but the last of a wide tree
WideNameLen == 214
\* the most 32-byte entries of a boot catalogue after its default entry
MaxCatalogueEntries == 3
\* the longest identifier of a record written on its own
MaxWrittenIdLen == 5
\* the most files and directories of a tree formatted with a boot image
MaxBootNodes == 1
\* length in sectors of the sink handed to format_new
SinkSectors == 40
\* longest identifier handed to DirectoryRecord::new
MaxIdLen == 255
\* the length of a long name handed to format_new: its record takes 256
\* bytes, which the record's length byte holds as 0
LongNameLen == 222
\* length in sectors of a sink too short for any image
SmallSinkSectors == 17
\* the most files and directories of a tree formatted on a sink of either length
MaxSinkNodes == 1

-----------------------------------------------------------------------------
(* Program constants *)

SectorSize == 2048
SystemAreaSectors == 16
DirectoryRecordHeaderSize == 33
PathTableEntryHeaderSize == 8
FlagDirectory == 2

Byte == 0..255
\* Option<T>: None is the empty sequence, Some(x) the sequence of x alone
None == <<>>
Some(x) == <<x>>
IsSome(o) == Len(o) = 1
Unwrap(o) == o[1]

Min(a, b) == IF a < b THEN a ELSE b
Max(a, b) == IF a > b THEN a ELSE b

Fill(n, b) == [i \in 1..n |-> b]
\* a sector of zero bytes, and the zero run of length n cut from such sectors
ZeroSector == Fill(2048, 0)
RECURSIVE Zeros(_)
Zeros(n) == IF n <= 2048 THEN SubSeq(ZeroSector, 1, n) ELSE ZeroSector \o Zeros(n - 2048)
Reverse(s) == [i \in 1..Len(s) |-> s[Len(s) + 1 - i]]

RECURSIVE Concat(_)
Concat(ss) == IF Len(ss) = 0 THEN <<>> ELSE Head(ss) \o Concat(Tail(ss))

\* `v as uN`
AsU8(v) == v % 256
AsU16(v) == v % 65536
\* the low and the high 16-bit half of the low 32 bits
AsU32(v) == (v % 65536) + 65536 * ((v \div 65536) % 65536)

\* (v + 1) & !1 and (v + 2047) & !2047
RoundUpEven(v) == ((v + 1) \div 2) * 2
RoundUpSector(v) == ((v + 2047) \div 2048) * 2048

-----------------------------------------------------------------------------
(* types.rs: fixed-endian scalars *)

\* to_le_bytes / to_be_bytes of a value of w bytes
RECURSIVE LeBytes(_, _), BeBytes(_, _)
LeBytes(v, w) == IF w = 0 THEN <<>> ELSE <<v % 256>> \o LeBytes(v \div 256, w - 1)
BeBytes(v, w) == IF w = 0 THEN <<>> ELSE BeBytes(v \div 256, w - 1) \o <<v % 256>>

\* from_le_bytes / from_be_bytes
RECURSIVE FromLe(_), FromBe(_)
FromLe(b) == IF Len(b) = 0 THEN 0 ELSE Head(b) + 256 * FromLe(Tail(b))
FromBe(b) == IF Len(b) = 0 THEN 0 ELSE b[Len(b)] + 256 * FromBe(SubSeq(b, 1, Len(b) - 1))

\* EndianType::u16_bytes / u32_bytes and read_u16 / read_u32; the native
\* endianness of the supported hosts is little
EndianBytes(endian, v, w) ==
    IF endian = "BigEndian" THEN BeBytes(v, w) ELSE LeBytes(v, w)
EndianRead(endian, b) ==
    IF endian = "BigEndian" THEN FromBe(b) ELSE FromLe(b)

\* LsbMsb<T>: the little-endian copy followed by the big-endian copy
LsbMsbBytes(v, w) == LeBytes(v, w) \o BeBytes(v, w)
\* LsbMsb::read on a little-endian host returns the lsb copy
LsbMsbRead(b, w) == FromLe(SubSeq(b, 1, w))

\* A u16, u32 or u64 held as its 1, 2 or 4 sixteen-bit limbs, the least
\* significant first; to_le_bytes, to_be_bytes and to_ne_bytes of the host
ToLeBytes(value) == Concat([i \in 1..Len(value) |-> LeBytes(value[i], 2)])
ToBeBytesLimbwise(value) == Concat([i \in 1..Len(value) |-> BeBytes(value[i], 2)])
ToBeBytes(value) == Concat([i \in 1..Len(value) |-> BeBytes(value[Len(value) + 1 - i], 2)])
ToNeBytes(host, value) == IF host = "big" THEN ToBeBytes(value) ELSE ToLeBytes(value)

\* from_le_bytes, from_be_bytes and from_ne_bytes
FromLeBytes(bytes) ==
    [i \in 1..(Len(bytes) \div 2) |-> FromLe(SubSeq(bytes, 2 * i - 1, 2 * i))]
FromBeBytes(bytes) ==
    [i \in 1..(Len(bytes) \div 2) |->
        FromBe(SubSeq(bytes, Len(bytes) - 2 * i + 1, Len(bytes) - 2 * i + 2))]
FromNeBytes(host, bytes) == IF host = "big" THEN FromBeBytes(bytes) ELSE FromLeBytes(bytes)

\* Endianness::set_u16 / set_u32 / set_u64 of NativeEndian, LittleEndian and
\* BigEndian: the bytes after copy_from_slice
EndiannessSet(endian, host, value) ==
    CASE endian = "NativeEndian" -> ToNeBytes(host, value)
      [] endian = "LittleEndian" -> ToLeBytes(value)
      [] OTHER -> ToBeBytes(value)

\* Endianness::get_u16 / get_u32 / get_u64
EndiannessGet(endian, host, bytes) ==
    CASE endian = "NativeEndian" -> FromNeBytes(host, bytes)
      [] endian = "LittleEndian" -> FromLeBytes(bytes)
      [] OTHER -> FromBeBytes(bytes)

\* U16::new / U32::new / U64::new: E::set on a zeroed array
EndianNew(endian, host, value) == EndiannessSet(endian, host, value)

\* LsbMsb::new and LsbMsb::write: lsb is a U<LittleEndian>, msb a U<BigEndian>
LsbMsbNew(host, value) ==
    [lsb |-> EndianNew("LittleEndian", host, value),
     msb |-> EndianNew("BigEndian", host, value)]
LsbMsbWrite(host, d, value) ==
    [lsb |-> EndiannessSet("LittleEndian", host, value),
     msb |-> EndiannessSet("BigEndian", host, value)]

\* LsbMsb::read: lsb.get() when target_endian is little, msb.get() when big
LsbMsbReadOn(host, d) ==
    IF host = "big" THEN EndiannessGet("BigEndian", host, d.msb)
    ELSE EndiannessGet("LittleEndian", host, d.lsb)

-----------------------------------------------------------------------------
(* types.rs: charsets and strings *)

IsUpper(c) == c \in 65..90
IsAlnum(c) == c \in 48..57 \/ c \in 65..90 \/ c \in 97..122

\* VALID_SYMBOLS of CharsetA: !"%$'()*+,-./:;<=>?
SymbolsA == {33, 34, 37, 36, 39, 40, 41, 42, 43, 44, 45, 46, 47, 58, 59, 60, 61, 62, 63}

\* Charset::is_valid for CharsetA, CharsetD and CharsetFile
CharsetIsValid(charset, chars) ==
    \A i \in 1..Len(chars) :
        CASE charset = "A" -> IsAlnum(chars[i]) \/ chars[i] \in SymbolsA
          [] charset = "D" -> IsUpper(chars[i]) \/ chars[i] \in (48..57) \cup {95}
          [] OTHER -> IsAlnum(chars[i]) \/ chars[i] \in {46, 47}

\* IsoStr::empty: N spaces
SpaceRun == Fill(128, 32)
IsoStrEmpty(n) == SubSeq(SpaceRun, 1, n)

\* IsoStr::from_str: Err(()) is None, Ok(chars) is Some(chars)
IsoStrFromStr(charset, n, s) ==
    IF Len(s) > n THEN None
    ELSE IF ~CharsetIsValid(charset, s) THEN None
    ELSE Some([i \in 1..n |-> IF i <= Len(s) THEN s[i] ELSE 32])

\* position(|c| c == b' ').unwrap_or(chars.len())
IsoStringLen(chars) ==
    IF \E i \in 1..Len(chars) : chars[i] = 32
    THEN (CHOOSE i \in 1..Len(chars) :
              chars[i] = 32 /\ \A j \in 1..(i - 1) : chars[j] # 32) - 1
    ELSE Len(chars)

\* IsoString::to_str: the two synthetic identifiers print as the four
\* characters \x00 and \x01, anything else is cut at its first space
IsoStringToStr(chars) ==
    IF Len(chars) = 1 /\ chars[1] = 0 THEN <<92, 120, 48, 48>>
    ELSE IF Len(chars) = 1 /\ chars[1] = 1 THEN <<92, 120, 48, 49>>
    ELSE SubSeq(chars, 1, IsoStringLen(chars))

\* u32::to_string
RECURSIVE ToDecimal(_)
ToDecimal(v) ==
    IF v < 10 THEN <<48 + v>> ELSE ToDecimal(v \div 10) \o <<48 + (v % 10)>>

\* str::split('/').last(): the part after the last slash
RECURSIVE LastSegment(_)
LastSegment(s) ==
    IF \E i \in 1..Len(s) : s[i] = 47
    THEN LastSegment(SubSeq(s, 1 + (CHOOSE i \in 1..Len(s) :
                         s[i] = 47 /\ \A j \in 1..(i - 1) : s[j] # 47), Len(s)))
    ELSE s

\* str::rsplit_once('/').map(|(p, _)| p).unwrap_or(""): the part before
\* the last slash
ParentName(s) ==
    IF \E i \in 1..Len(s) : s[i] = 47
    THEN SubSeq(s, 1, (CHOOSE i \in 1..Len(s) :
                         s[i] = 47 /\ \A j \in (i + 1)..Len(s) : s[j] # 47) - 1)
    ELSE <<>>

-----------------------------------------------------------------------------
(* The sink: Read + Write + Seek over a growable store (std::fs::File) *)

\* The store is kept sector by sector: sector s maps to its bytes up to the
\* last nonzero one, a sector never written is absent; every other byte below
\* sink_len reads as zero.
SectorOf(snk, s) == IF s \in DOMAIN snk THEN snk[s] ELSE <<>>
PadTo(seq, n) == IF Len(seq) >= n THEN seq ELSE seq \o Zeros(n - Len(seq))

\* seq without its trailing zero bytes
RECURSIVE TrimZeros(_)
TrimZeros(seq) ==
    LET n == Len(seq)
        h == (n + 1) \div 2
    IN  IF n = 0 THEN seq
        ELSE IF seq[n] # 0 THEN seq
        ELSE IF SubSeq(seq, n - h + 1, n) = Zeros(h) THEN TrimZeros(SubSeq(seq, 1, n - h))
        ELSE SubSeq(seq, 1, n - h) \o TrimZeros(SubSeq(seq, n - h + 1, n))

\* Write::write_all of `bytes` at byte offset `off`
RECURSIVE WriteAll(_, _, _)
WriteAll(snk, off, bytes) ==
    IF Len(bytes) = 0 THEN snk
    ELSE LET s == off \div SectorSize
             k == off % SectorSize
             m == Min(Len(bytes), SectorSize - k)
             old == SectorOf(snk, s)
             new == TrimZeros(SubSeq(PadTo(old, k), 1, k) \o SubSeq(bytes, 1, m)
                                  \o SubSeq(old, k + m + 1, Len(old)))
             snk1 == [t \in DOMAIN snk \cup {s} |-> IF t = s THEN new ELSE snk[t]]
         IN  WriteAll(snk1, off + m, SubSeq(bytes, m + 1, Len(bytes)))

\* Read::read_exact of n bytes at byte offset `off` (the caller checks the end)
RECURSIVE ReadExact(_, _, _)
ReadExact(snk, off, n) ==
    IF n = 0 THEN <<>>
    ELSE LET s == off \div SectorSize
             k == off % SectorSize
             m == Min(n, SectorSize - k)
         IN  SubSeq(PadTo(SectorOf(snk, s), k + m), k + 1, k + m)
                 \o ReadExact(snk, off + m, n - m)

\* the sink's length after write_all of `bytes` at byte offset `off`: a write
\* beyond the end grows the sink, a write of no bytes does nothing
WriteEnd(len, off, bytes) == IF Len(bytes) = 0 THEN len ELSE Max(len, off + Len(bytes))

\* read_exact of n bytes at byte offset `off` of a sink `len` bytes long fails
\* (UnexpectedEof) when bytes are missing; a read of no bytes asks for nothing
ReadFails(off, n, len) == n > 0 /\ off + n > len

\* the cursor after that read_exact: behind the bytes read, and after a failed
\* read at the sink's end, or where it stood when that was beyond the end
ReadEnd(off, n, len) == IF ReadFails(off, n, len) THEN Max(off, len) ELSE off + n

\* a slip in align: the cursor is left where it is
AlignNot(p) == p

\* IsoImage::align: (current_seek + 2047) & !2047
Align(p) == RoundUpSector(p)

\* IsoImage::current_sector: Some(seek / 2048), or None when the assertion
\* seek % 2048 == 0 fails
CurrentSector(p) == IF p % SectorSize = 0 THEN Some(p \div SectorSize) ELSE None

-----------------------------------------------------------------------------
(* directory.rs: directory records *)

\* DirectoryRef {offset, size}
\* a DirectoryRef that loses its offset
DirectoryRefNoOffset(offset, size) == [offset |-> 0, size |-> size]
DirectoryRef(offset, size) == [offset |-> offset, size |-> size]
DirectoryRefDefault == DirectoryRef(0, 0)

\* DirectoryRecordHeader as its 33 bytes (repr(C), every field of alignment 1):
\* len, extended_attr_record, extent (LsbMsb u32), data_len (LsbMsb u32),
\* date_time (7 bytes), flags, file_unit_size, interleave_gap_size,
\* volume_sequence_number (LsbMsb u16), file_identifier_len
HeaderBytes(len, extent, data_len, flags, vsn, file_identifier_len) ==
    <<len, 0>> \o LsbMsbBytes(extent, 4) \o LsbMsbBytes(data_len, 4) \o Zeros(7)
        \o <<flags, 0, 0>> \o LsbMsbBytes(vsn, 2) \o <<file_identifier_len>>

\* DirectoryRecordHeader::default
HeaderDefault == HeaderBytes(0, 0, 0, 0, 0, 0)

HeaderLen(h) == h[1]
HeaderExtent(h) == LsbMsbRead(SubSeq(h, 3, 10), 4)
HeaderDataLen(h) == LsbMsbRead(SubSeq(h, 11, 18), 4)
HeaderFlags(h) == h[26]
HeaderFileIdentifierLen(h) == h[33]

\* DirectoryRecordHeader::is_directory: flags contains FileFlags::DIRECTORY
IsDirectory(h) == (HeaderFlags(h) \div FlagDirectory) % 2 = 1

\* header.extent.write(v) and header.data_len.write(v)
WithExtent(h, v) == SubSeq(h, 1, 2) \o LsbMsbBytes(v, 4) \o SubSeq(h, 11, 33)
WithDataLen(h, v) == SubSeq(h, 1, 10) \o LsbMsbBytes(v, 4) \o SubSeq(h, 19, 33)

\* the stored length byte: ((size_of::<DirectoryRecordHeader>() + name.len() + 1) & !1) as u8
RecordLen(n) == AsU8(RoundUpEven(DirectoryRecordHeaderSize + n))

\* DirectoryRecord::new
DirectoryRecordNew(name, dir_ref, flags) ==
    [header |-> HeaderBytes(RecordLen(Len(name)), AsU32(dir_ref.offset),
                            AsU32(dir_ref.size), flags, 1, AsU8(Len(name))),
     name |-> name]

\* DirectoryRecord::directory and DirectoryRecord::file
DirectoryRecordDirectory(name, dir_ref) == DirectoryRecordNew(name, dir_ref, FlagDirectory)
DirectoryRecordFile(name, dir_ref) == DirectoryRecordNew(name, dir_ref, 0)

\* the bytes DirectoryRecord::write emits: the header, the identifier, then
\* header.len - (33 + name.len()) zero bytes when that is positive, where
\* name.len() stops at the first space
DirectoryRecordWrite(r) ==
    LET written == DirectoryRecordHeaderSize + IsoStringLen(r.name)
    IN  r.header \o r.name
            \o (IF written < HeaderLen(r.header)
                THEN Zeros(HeaderLen(r.header) - written) ELSE <<>>)

-----------------------------------------------------------------------------
(* path.rs: path table entries *)

PathTableEntry(length, parent_lba, parent_index, name) ==
    [length |-> length, extended_attr_record |-> 0, parent_lba |-> parent_lba,
     parent_index |-> parent_index, name |-> name]

\* PathTableEntry::to_bytes: None when assert_eq!(header.len, name.len()) fails
PathTableEntryToBytes(e, endian) ==
    LET len == AsU8(Len(e.name))
    IN  IF len # Len(e.name) THEN None
        ELSE Some(<<len, 0>> \o EndianBytes(endian, e.parent_lba, 4)
                      \o EndianBytes(endian, e.parent_index, 2) \o e.name
                      \o (IF len % 2 = 1 THEN <<0>> ELSE <<>>))

\* PathTableEntry::size
PathTableEntrySize(e) == RoundUpEven(PathTableEntryHeaderSize + Len(e.name))

\* the bytes of a table in one endianness, written entry by entry: all of
\* them, or with `panic` those of the entries before the first that panics
TableBytes(es, endian) ==
    LET bad == {i \in 1..Len(es) : ~IsSome(PathTableEntryToBytes(es[i], endian))}
        k == IF bad = {} THEN Len(es) ELSE (CHOOSE i \in bad : \A j \in bad : i <= j) - 1
    IN  [panic |-> bad # {},
         bytes |-> Concat([i \in 1..k |-> Unwrap(PathTableEntryToBytes(es[i], endian))])]

-----------------------------------------------------------------------------
(* lib.rs: the input model *)

\* IsoFile::File {name, data} and IsoFile::Directory {name, entries}
File(name, data) == [kind |-> "File", name |-> name, data |-> data, entries |-> <<>>]
Directory(name, ents) == [kind |-> "Directory", name |-> name, data |-> <<>>, entries |-> ents]

\* format!("{}/{}", cur_path, name)
Join(cur_path, name) == cur_path \o <<47>> \o name

\* ... followed by `if path.ends_with('/') { path.pop(); }`
JoinPop(cur_path, name) ==
    LET path == Join(cur_path, name)
    IN  IF path[Len(path)] = 47 THEN SubSeq(path, 1, Len(path) - 1) ELSE path

\* FileWriter::flatmap_recursive: the entries pushed for `file` below cur_path,
\* a directory first and then its entries in order
RECURSIVE FlatmapRecursive(_, _)
FlatmapRecursive(file, cur_path) ==
    LET path == JoinPop(cur_path, file.name)
    IN  IF file.kind = "Directory"
        THEN <<Directory(path,
                  [i \in 1..Len(file.entries) |->
                      IF file.entries[i].kind = "File"
                      THEN File(Join(path, file.entries[i].name), <<>>)
                      ELSE Directory(Join(path, file.entries[i].name), <<>>)])>>
             \o Concat([i \in 1..Len(file.entries) |->
                            FlatmapRecursive(file.entries[i], path)])
        ELSE <<File(path, file.data)>>

\* FileWriter::new: the flat-map of the tree below a root of empty name, reversed
FileWriterFiles(file_tree) == Reverse(FlatmapRecursive(Directory(<<>>, file_tree), <<>>))

-----------------------------------------------------------------------------
(* volume.rs: volume descriptors *)

TypeBootRecord == 0
TypePrimary == 1
TypeSetTerminator == 255

\* "CD001", "ISOIMAGE", "ISO-RS", "EL TORITO SPECIFICATION"
StrCD001 == <<67, 68, 48, 48, 49>>
StrIsoImage == <<73, 83, 79, 73, 77, 65, 71, 69>>
StrIsoRs == <<73, 83, 79, 45, 82, 83>>
StrElTorito == <<69, 76, 32, 84, 79, 82, 73, 84, 79, 32, 83, 80, 69, 67, 73, 70,
                 73, 67, 65, 84, 73, 79, 78>>

\* VolumeDescriptorHeader as its 7 bytes
VolumeDescriptorHeader(ty, identifier) == <<ty>> \o identifier \o <<1>>

\* VolumeDescriptorHeader::is_valid on the first 7 bytes of a record
HeaderIsValid(h) == SubSeq(h, 2, 6) = StrCD001

\* DecDateTime::now: the seven decimal fields and the timezone byte, None
\* when a from_str(..).unwrap() fails
DecDateTimeNow(t) ==
    LET fs == <<IsoStrFromStr("D", 4, ToDecimal(t.year)),
                IsoStrFromStr("D", 2, ToDecimal(t.month)),
                IsoStrFromStr("D", 2, ToDecimal(t.day)),
                IsoStrFromStr("D", 2, ToDecimal(t.hour)),
                IsoStrFromStr("D", 2, ToDecimal(t.minute)),
                IsoStrFromStr("D", 2, ToDecimal(t.second)),
                IsoStrFromStr("D", 2, ToDecimal(t.nanosecond \div 10000000))>>
    IN  IF \E i \in 1..7 : ~IsSome(fs[i]) THEN None
        ELSE Some(Concat([i \in 1..7 |-> Unwrap(fs[i])]) \o <<0>>)

\* PrimaryVolumeDescriptor::new: the fields format_new later fills in are kept
\* apart, the rest is what new() stores
PrimaryVolumeDescriptorNew(sectors, t) ==
    [type |-> "Primary",
     volume_space_size |-> sectors,
     path_table_size |-> 0,
     type_l_path_table |-> 0,
     type_m_path_table |-> 0,
     dir_record |-> HeaderDefault \o <<0>>,
     creation_date |-> Unwrap(DecDateTimeNow(t[1])),
     modification_date |-> Unwrap(DecDateTimeNow(t[2])),
     expiration_date |-> Unwrap(DecDateTimeNow(t[3])),
     effective_date |-> Unwrap(DecDateTimeNow(t[4])),
     catalog_ptr |-> 0]

\* BootRecordVolumeDescriptor::new
BootRecordVolumeDescriptorNew(catalog_ptr) ==
    [type |-> "BootRecord",
     volume_space_size |-> 0,
     path_table_size |-> 0,
     type_l_path_table |-> 0,
     type_m_path_table |-> 0,
     dir_record |-> <<>>,
     creation_date |-> <<>>,
     modification_date |-> <<>>,
     expiration_date |-> <<>>,
     effective_date |-> <<>>,
     catalog_ptr |-> catalog_ptr]

\* bytemuck::bytes_of(PrimaryVolumeDescriptor): the 2048 bytes in field order
PrimaryBytes(d) ==
    VolumeDescriptorHeader(TypePrimary, Unwrap(IsoStrFromStr("A", 5, StrCD001)))
        \o <<0>>
        \o IsoStrEmpty(32)
        \o Unwrap(IsoStrFromStr("D", 32, StrIsoImage))
        \o Zeros(8)
        \o LsbMsbBytes(d.volume_space_size, 4)
        \o Zeros(32)
        \o LsbMsbBytes(1, 2) \o LsbMsbBytes(1, 2) \o LsbMsbBytes(2048, 2)
        \o LsbMsbBytes(d.path_table_size, 4)
        \o LeBytes(d.type_l_path_table, 4) \o LeBytes(0, 4)
        \o BeBytes(d.type_m_path_table, 4) \o BeBytes(0, 4)
        \o d.dir_record
        \o IsoStrEmpty(128) \o IsoStrEmpty(128) \o IsoStrEmpty(128)
        \o Unwrap(IsoStrFromStr("A", 128, StrIsoRs))
        \o IsoStrEmpty(37) \o IsoStrEmpty(37) \o IsoStrEmpty(37)
        \o d.creation_date \o d.modification_date \o d.expiration_date
        \o d.effective_date
        \o <<1, 0>>
        \o Zeros(512)
        \o Zeros(653)

\* a Boot Record encoder whose unused1 is one byte short
BootRecordBytesShort(d) ==
    VolumeDescriptorHeader(TypeBootRecord, StrCD001)
        \o PadTo(StrElTorito, 32) \o Zeros(32) \o LeBytes(d.catalog_ptr, 4) \o Zeros(1972)

\* bytemuck::bytes_of(BootRecordVolumeDescriptor)
BootRecordBytes(d) ==
    VolumeDescriptorHeader(TypeBootRecord, StrCD001)
        \o PadTo(StrElTorito, 32) \o Zeros(32) \o LeBytes(d.catalog_ptr, 4) \o Zeros(1973)

\* VolumeDescriptorSetTerminator::new().to_bytes()
SetTerminatorBytes ==
    VolumeDescriptorHeader(TypeSetTerminator, IsoStrEmpty(5)) \o Zeros(2041)

\* VolumeDescriptor::to_bytes
DescriptorBytes(d) == IF d.type = "Primary" THEN PrimaryBytes(d) ELSE BootRecordBytes(d)

\* the bytes VolumeDescriptorList::write emits
VolumeDescriptorListWrite(ds) ==
    Concat([i \in 1..Len(ds) |-> DescriptorBytes(ds[i])]) \o SetTerminatorBytes

\* a size_required that forgets the set terminator
SizeRequiredNoTerminator(ds) == Len(ds) * 2048

\* VolumeDescriptorList::size_required
SizeRequired(ds) == (Len(ds) + 1) * 2048

\* the index of the first descriptor of a type; 0 when there is none
FindDescriptor(ds, type) ==
    IF \E i \in 1..Len(ds) : ds[i].type = type
    THEN CHOOSE i \in 1..Len(ds) : ds[i].type = type /\ \A j \in 1..(i - 1) : ds[j].type # type
    ELSE 0

-----------------------------------------------------------------------------
(* boot.rs: the El Torito boot catalogue *)

\* BootValidationEntry as its 32 bytes: header_id, platform_id, reserved,
\* manufacturer, checksum (little-endian u16), key
ValidationBytes(header_id, platform_id, reserved, manufacturer, checksum, key) ==
    <<header_id, platform_id>> \o reserved \o manufacturer \o LeBytes(checksum, 2) \o key

\* the wrapping sum of the sixteen little-endian words, bytes 28 and 29 zeroed
RECURSIVE WordSum(_, _)
WordSum(bytes, i) ==
    IF i > 31 THEN 0
    ELSE AsU16((IF i = 29 THEN 0 ELSE FromLe(SubSeq(bytes, i, i + 1))) + WordSum(bytes, i + 2))

\* BootValidationEntry::calculate_checksum: (!checksum) + 1 on u16, which
\* overflows when the sum is 0: a build with overflow checks panics (None), a
\* build without them wraps to 0
CalculateChecksum(bytes, overflow_checks) ==
    LET checksum == WordSum(bytes, 1)
        neg == 65535 - checksum
    IN  IF neg + 1 > 65535
        THEN (IF overflow_checks THEN None ELSE Some(0))
        ELSE Some(neg + 1)

ValidationHeaderId(bytes) == bytes[1]
ValidationChecksum(bytes) == FromLe(SubSeq(bytes, 29, 30))

\* BootValidationEntry::is_valid: "true", "false" or "panic"
ValidationIsValid(bytes, overflow_checks) ==
    IF ValidationHeaderId(bytes) # 1 THEN "false"
    ELSE LET c == CalculateChecksum(bytes, overflow_checks)
         IN  IF ~IsSome(c) THEN "panic"
             ELSE IF ValidationChecksum(bytes) = Unwrap(c) THEN "true" ELSE "false"

\* BootValidationEntry::new: None when calculate_checksum panics
BootValidationEntryNew(overflow_checks) ==
    LET e == ValidationBytes(1, 0, Zeros(2), Zeros(24), 0, <<85, 170>>)
        c == CalculateChecksum(e, overflow_checks)
    IN  IF IsSome(c)
        THEN Some(ValidationBytes(1, 0, Zeros(2), Zeros(24), Unwrap(c), <<85, 170>>))
        ELSE None

\* a slip in BootSectionEntry::new: load_segment and sector_count exchanged
BootSectionEntrySwapped(media_type, load_segment, sector_count, load_rba) ==
    <<136, media_type>> \o LeBytes(sector_count, 2) \o <<0, 0>>
        \o LeBytes(load_segment, 2) \o LeBytes(load_rba, 4) \o <<0>> \o Zeros(19)

\* BootSectionEntry::new as its 32 bytes
BootSectionEntryNew(media_type, load_segment, sector_count, load_rba) ==
    <<136, media_type>> \o LeBytes(load_segment, 2) \o <<0, 0>>
        \o LeBytes(sector_count, 2) \o LeBytes(load_rba, 4) \o <<0>> \o Zeros(19)

\* BootCatalogue::new followed by BootCatalogue::write: the validation entry,
\* the default entry, no sections, and the 32 zero bytes that end the entries
BootCatalogueWrite(validation, load_segment, sector_count, load_rba) ==
    validation \o BootSectionEntryNew(0, load_segment, sector_count, load_rba) \o Zeros(32)

\* bytemuck::bytes_of(BootInfoTable)
BootInfoTableBytes(iso_start, boot_image_lba, total_sectors, boot_file_offset, boot_file_size) ==
    LeBytes(iso_start, 4) \o LeBytes(0, 2) \o LeBytes(0, 2) \o LeBytes(boot_image_lba, 4)
        \o LeBytes(total_sectors, 4) \o LeBytes(boot_file_offset, 4)
        \o LeBytes(boot_file_size, 4)

-----------------------------------------------------------------------------
(* lib.rs: IsoDirectory *)

\* the loop of IsoDirectory::entries over `bytes`, the `size` bytes read from
\* byte offset `base`, from the 0-based index i: the (offset, record) pairs,
\* and whether a slice of `bytes` ran out of bounds (a panic)
RECURSIVE ParseRecords(_, _, _, _)
ParseRecords(snk, base, size, i) ==
    IF i >= size THEN [panic |-> FALSE, entries |-> <<>>]
    ELSE IF i + DirectoryRecordHeaderSize > size THEN [panic |-> TRUE, entries |-> <<>>]
    ELSE LET h == ReadExact(snk, base + i, DirectoryRecordHeaderSize)
             n == HeaderFileIdentifierLen(h)
         IN  IF HeaderLen(h) = 0 THEN [panic |-> FALSE, entries |-> <<>>]
             ELSE IF i + DirectoryRecordHeaderSize + n > size
             THEN [panic |-> TRUE, entries |-> <<>>]
             ELSE LET rest == ParseRecords(snk, base, size, i + HeaderLen(h))
                      e == [offset |-> i,
                            record |-> [header |-> h,
                                        name |-> ReadExact(snk, base + i
                                                     + DirectoryRecordHeaderSize, n)]]
                  IN  [panic |-> rest.panic, entries |-> <<e>> \o rest.entries]

\* IsoDirectory::entries on the directory d = {offset, size}: status "ok"
\* with the entries, "err" when read_exact meets the end of the sink, "panic"
EntriesOf(snk, len, d) ==
    IF ReadFails(d.offset * 2048, d.size, len) THEN [status |-> "err", entries |-> <<>>]
    ELSE LET r == ParseRecords(snk, d.offset * 2048, d.size, 0)
         IN  [status |-> IF r.panic THEN "panic" ELSE "ok", entries |-> r.entries]

\* where IsoDirectory::entries leaves the cursor: behind the extent it read
\* (lines 188-193), whatever the loop over the bytes does afterwards
EntriesEnd(len, d) == ReadEnd(d.offset * 2048, d.size, len)

\* iter().find_map(..): the first entry satisfying the test, as an Option
FirstEntry(es, Test(_)) ==
    IF \E i \in 1..Len(es) : Test(es[i].record)
    THEN Some(es[CHOOSE i \in 1..Len(es) :
                      Test(es[i].record) /\ \A j \in 1..(i - 1) : ~Test(es[j].record)].record)
    ELSE None

-----------------------------------------------------------------------------
(* lib.rs: FileWriter *)

\* BTreeMap::insert and BTreeMap::get
Insert(map, key, value) ==
    [k \in DOMAIN map \cup {key} |-> IF k = key THEN value ELSE map[k]]
Get(map, key) == IF key \in DOMAIN map THEN Some(map[key]) ELSE None

\* the record write_directory_data emits for one entry of a directory
ChildRecord(e, file_ref) ==
    IF e.kind = "Directory"
    THEN DirectoryRecordDirectory(LastSegment(e.name), file_ref)
    ELSE DirectoryRecordFile(LastSegment(e.name), file_ref)

\* the number of leading entries whose placement written_files holds
RECURSIVE Resolved(_, _)
Resolved(ents, map) ==
    IF Len(ents) = 0 \/ Head(ents).name \notin DOMAIN map THEN 0
    ELSE 1 + Resolved(Tail(ents), map)

\* the bytes the first pass writes for a directory: `.` and `..` with default
\* references, then the records of its first k entries
FirstPassBytes(ents, k, map) ==
    DirectoryRecordWrite(DirectoryRecordDirectory(<<0>>, DirectoryRefDefault))
        \o DirectoryRecordWrite(DirectoryRecordDirectory(<<1>>, DirectoryRefDefault))
        \o Concat([i \in 1..k |->
                      DirectoryRecordWrite(ChildRecord(ents[i], map[ents[i].name]))])

\* the two records the backpatch rewrites at the start of a directory's extent
\* (lines 531-532): `.` with its own reference, `..` with its parent's
DotRecords(dir_ref, parent_ref) ==
    DirectoryRecordWrite(DirectoryRecordDirectory(<<0>>, dir_ref))
        \o DirectoryRecordWrite(DirectoryRecordDirectory(<<1>>, parent_ref))

\* the loop of the backpatch over entries()[i..] of the directory at `start`
\* with path cur_path: the sink after the rewrites, the work pushed, and
\* whether a placement lookup failed (a panic), the end of the record
\* rewritten last, where the cursor is left (0 when none was), and the
\* furthest end of any record rewritten, up to which the sink grows
RECURSIVE PatchChildren(_, _, _, _, _, _, _)
PatchChildren(snk, es, i, start, dir_ref, cur_path, map) ==
    IF i > Len(es) THEN [sink |-> snk, pushed |-> <<>>, panic |-> FALSE, last |-> 0, end |-> 0]
    ELSE LET r == es[i].record
         IN  IF ~IsDirectory(r.header) \/ r.name = <<0>> \/ r.name = <<1>>
             THEN PatchChildren(snk, es, i + 1, start, dir_ref, cur_path, map)
             ELSE LET dirname == Join(cur_path, IsoStringToStr(r.name))
                  IN  IF dirname \notin DOMAIN map
                      THEN [sink |-> snk, pushed |-> <<>>, panic |-> TRUE, last |-> 0,
                            end |-> 0]
                      ELSE LET inner == map[dirname]
                               new_entry == [header |-> WithDataLen(WithExtent(r.header,
                                                 AsU32(inner.offset)), AsU32(inner.size)),
                                             name |-> r.name]
                               bytes == DirectoryRecordWrite(new_entry)
                               at == start + es[i].offset
                               rest == PatchChildren(WriteAll(snk, at, bytes), es, i + 1,
                                                     start, dir_ref, cur_path, map)
                           IN  [sink |-> rest.sink,
                                pushed |-> <<[dir_ref |-> inner, parent_ref |-> dir_ref,
                                              cur_path |-> dirname]>> \o rest.pushed,
                                panic |-> rest.panic,
                                last |-> IF rest.last = 0 THEN at + Len(bytes)
                                         ELSE rest.last,
                                end |-> Max(at + Len(bytes), rest.end)]

\* the loop of write_path_table over files[i..]: the entries after the root
\* entry, `index` being the loop's counter and parent_map its map
RECURSIVE TableEntries(_, _, _, _, _)
TableEntries(fs, i, index, parent_map, map) ==
    IF i > Len(fs) THEN <<>>
    ELSE IF fs[i].kind # "Directory" \/ Len(fs[i].name) = 0
    THEN TableEntries(fs, i + 1, index, parent_map, map)
    ELSE LET name == fs[i].name
             parent_name == ParentName(name)
             parent_index == IF parent_name \in DOMAIN parent_map
                             THEN parent_map[parent_name] ELSE 1
         IN  <<PathTableEntry(AsU8(Len(name)), AsU32(map[name].offset), parent_index, name)>>
                 \o TableEntries(fs, i + 1, index + 1, Insert(parent_map, name, index), map)

\* the whole entry list of write_path_table
PathTableEntries(fs, root, map) ==
    <<PathTableEntry(1, AsU32(root.offset), 1, <<0>>)>>
        \o TableEntries(fs, 1, 1, Insert(<<>>, <<>>, 1), map)

-----------------------------------------------------------------------------
(* The inputs *)

\* identifiers "A" and "BC": one that leaves its record even, one that needs a pad
Names == {<<65>>, <<66, 67>>}
\* file contents: empty, "hi", and one byte more than a sector of 'H'
FileDatas == {<<>>, <<104, 105>>, Fill(2049, 72)}
\* the boot image, stored under the name "D"
BootImage == [i \in 1..80 |-> i]
ElToritos == {[load_size |-> 4, boot_image_path |-> <<68>>, boot_image |-> BootImage,
               boot_info_table |-> b] : b \in BOOLEAN}
\* the clock: an instant, the instant 10 ms later, and the four readings
\* PrimaryVolumeDescriptor::new takes, the hundredths turning before the last
Instant == [year |-> 2025, month |-> 3, day |-> 14, hour |-> 9, minute |-> 26,
            second |-> 53, nanosecond |-> 589793238]
Later == [Instant EXCEPT !.nanosecond = 599793238]
Clocks == {<<Instant, Instant, Instant, Later>>}

DistinctNames(f) == \A i, j \in 1..Len(f) : i # j => f[i].name # f[j].name

\* the trees of exactly k nodes and the sibling lists of exactly n nodes in
\* all, siblings bearing distinct names
RECURSIVE TreesOfSize(_), ForestsOfSize(_)
TreesOfSize(k) ==
    {Directory(n, f) : n \in Names, f \in ForestsOfSize(k - 1)}
        \cup (IF k = 1 THEN {File(n, d) : n \in Names, d \in FileDatas} ELSE {})
ForestsOfSize(n) ==
    IF n = 0 THEN {<<>>}
    ELSE UNION {{f \in {<<t>> \o g : t \in TreesOfSize(k), g \in ForestsOfSize(n - k)} :
                    DistinctNames(f)} : k \in 1..n}

FileTrees == UNION {ForestsOfSize(n) : n \in 0..MaxNodes}
BootTrees == UNION {ForestsOfSize(n) : n \in 0..MaxBootNodes}

\* FormatOptions {files, el_torito}
FormatOptions ==
    [files : FileTrees, el_torito : {None}]
        \cup [files : BootTrees, el_torito : {Some(e) : e \in ElToritos}]

-----------------------------------------------------------------------------
(* The formatter: IsoImage::format_new, one action per pass or loop turn *)

formatVars == <<volume_descriptors, files, written_files, idx, stack, root_dir,
                path_table, table_entries>>
readerVars == <<iso, dir, out>>
pureVars == <<rec, entry>>
inputVars == <<ops, now>>

Placement(kind, name, lba, start, len) ==
    [kind |-> kind, name |-> name, lba |-> lba, start |-> start, len |-> len]

Panicked(why) ==
    /\ pc' = "panicked"
    /\ out' = Some([call |-> "format_new", status |-> "panic", value |-> why])

\* lines 271-295 and FileWriter::new; the seek to the end of the sink that
\* measures it (line 272) comes before the clock is read, so a panic of
\* PrimaryVolumeDescriptor::new leaves the cursor there
FormatNew ==
    /\ pc = "format_new"
    /\ LET size_sectors == sink_len \div 2048
           el == ops.el_torito
           vds == <<PrimaryVolumeDescriptorNew(AsU32(size_sectors), now)>>
                      \o (IF IsSome(el) THEN <<BootRecordVolumeDescriptorNew(0)>> ELSE <<>>)
           fs == ops.files
                     \o (IF IsSome(el)
                         THEN <<File(Unwrap(el).boot_image_path, Unwrap(el).boot_image)>>
                         ELSE <<>>)
       IN  IF \E i \in 1..Len(now) : ~IsSome(DecDateTimeNow(now[i]))
           THEN /\ Panicked("unwrap")
                /\ pos' = sink_len
                /\ UNCHANGED formatVars
           ELSE /\ volume_descriptors' = vds
                /\ pos' = SystemAreaSectors * 2048 + SizeRequired(vds)
                /\ files' = FileWriterFiles(fs)
                /\ written_files' = <<>>
                /\ idx' = 1
                /\ pc' = "write_file_data"
                /\ UNCHANGED <<stack, root_dir, path_table, table_entries, out>>
    /\ UNCHANGED <<inputVars, sink, sink_len, placed, iso, dir, pureVars>>

\* one turn of the loop of FileWriter::write_file_data
WriteFileData ==
    /\ pc = "write_file_data"
    /\ LET file == files[idx]
           sector == CurrentSector(pos)
       IN  IF file.kind # "File"
           THEN /\ pc' = IF idx = Len(files) THEN "write_directory_data" ELSE pc
                /\ idx' = IF idx = Len(files) THEN 1 ELSE idx + 1
                /\ UNCHANGED <<written_files, sink, sink_len, pos, placed, out>>
           ELSE IF ~IsSome(sector)
           THEN /\ Panicked("Seek must be a multiple of 2048")
                /\ UNCHANGED <<written_files, sink, sink_len, pos, placed, idx>>
           ELSE /\ written_files' = Insert(written_files, file.name,
                        DirectoryRef(Unwrap(sector), RoundUpSector(Len(file.data))))
                /\ sink' = WriteAll(sink, pos, file.data)
                /\ sink_len' = WriteEnd(sink_len, pos, file.data)
                /\ pos' = Align(pos + Len(file.data))
                /\ placed' = Append(placed, Placement("file", file.name, Unwrap(sector),
                                                      pos, Len(file.data)))
                /\ pc' = IF idx = Len(files) THEN "write_directory_data" ELSE pc
                /\ idx' = IF idx = Len(files) THEN 1 ELSE idx + 1
                /\ UNCHANGED out
    /\ UNCHANGED <<inputVars, volume_descriptors, files, stack, root_dir, path_table,
                   table_entries, iso, dir, pureVars>>

\* one turn of the first loop of FileWriter::write_directory_data; the last
\* turn also reads the root's placement and seeds the stack (lines 524-525)
WriteDirectoryData ==
    /\ pc = "write_directory_data"
    /\ LET file == files[idx]
           sector == CurrentSector(pos)
           k == Resolved(file.entries, written_files)
           bytes == FirstPassBytes(file.entries, k, written_files)
           end == Align(pos + Len(bytes))
           map == IF file.kind = "Directory" /\ IsSome(sector) /\ k = Len(file.entries)
                  THEN Insert(written_files, file.name,
                              DirectoryRef(Unwrap(sector), end - Unwrap(sector) * 2048))
                  ELSE written_files
           last == idx = Len(files)
       IN  IF file.kind = "Directory" /\ ~IsSome(sector)
           THEN /\ Panicked("Seek must be a multiple of 2048")
                /\ UNCHANGED <<written_files, sink, sink_len, pos, placed, idx, stack, root_dir>>
           ELSE IF file.kind = "Directory" /\ k < Len(file.entries)
           THEN /\ Panicked("unwrap")
                /\ sink' = WriteAll(sink, pos, bytes)
                /\ sink_len' = WriteEnd(sink_len, pos, bytes)
                /\ pos' = pos + Len(bytes)
                /\ UNCHANGED <<written_files, placed, idx, stack, root_dir>>
           ELSE IF last /\ <<>> \notin DOMAIN map
           THEN /\ Panicked("unwrap")
                /\ UNCHANGED <<written_files, sink, sink_len, pos, placed, idx, stack, root_dir>>
           ELSE /\ written_files' = map
                /\ IF file.kind = "Directory"
                   THEN /\ sink' = WriteAll(sink, pos, bytes)
                        /\ sink_len' = WriteEnd(sink_len, pos, bytes)
                        /\ pos' = end
                        /\ placed' = Append(placed, Placement("directory", file.name,
                                                Unwrap(sector), pos, Len(bytes)))
                   ELSE UNCHANGED <<sink, sink_len, pos, placed>>
                /\ IF last
                   THEN /\ root_dir' = map[<<>>]
                        /\ stack' = <<[dir_ref |-> map[<<>>], parent_ref |-> map[<<>>],
                                       cur_path |-> <<>>]>>
                        /\ pc' = "backpatch"
                        /\ idx' = 0
                   ELSE /\ idx' = idx + 1
                        /\ UNCHANGED <<pc, root_dir, stack>>
                /\ UNCHANGED out
    /\ UNCHANGED <<inputVars, volume_descriptors, files, path_table, table_entries,
                   iso, dir, pureVars>>

\* one turn of the stack loop of write_directory_data (lines 527-556); the
\* turn that empties the stack also seeks to the end of the root directory
\* (lines 559-560)
Backpatch ==
    /\ pc = "backpatch"
    /\ LET top == stack[Len(stack)]
           start == top.dir_ref.offset * 2048
           dots == DotRecords(top.dir_ref, top.parent_ref)
           snk1 == WriteAll(sink, start, dots)
           len1 == WriteEnd(sink_len, start, dots)
           es == EntriesOf(snk1, len1, top.dir_ref)
           r == PatchChildren(snk1, es.entries, 1, start, top.dir_ref, top.cur_path,
                              written_files)
           rest == SubSeq(stack, 1, Len(stack) - 1) \o r.pushed
           cursor == IF r.last = 0 THEN EntriesEnd(len1, top.dir_ref) ELSE r.last
       IN  IF es.status # "ok"
           THEN /\ pc' = "panicked"
                /\ out' = Some([call |-> "format_new", status |-> es.status,
                                value |-> "entries"])
                /\ sink' = snk1
                /\ sink_len' = len1
                /\ pos' = EntriesEnd(len1, top.dir_ref)
                /\ UNCHANGED stack
           ELSE /\ sink' = r.sink
                /\ sink_len' = Max(len1, r.end)
                /\ IF r.panic
                   THEN /\ Panicked("unwrap")
                        /\ pos' = cursor
                        /\ UNCHANGED stack
                   ELSE /\ stack' = rest
                        /\ pos' = IF Len(rest) = 0
                                  THEN root_dir.offset * 2048 + root_dir.size ELSE cursor
                        /\ pc' = IF Len(rest) = 0 THEN "write_path_table" ELSE pc
                        /\ UNCHANGED out
    /\ UNCHANGED <<inputVars, volume_descriptors, files, written_files, idx, root_dir,
                   path_table, table_entries, placed, iso, dir, pureVars>>

\* FileWriter::write_path_table
WritePathTable ==
    /\ pc = "write_path_table"
    /\ LET sector == CurrentSector(pos)
           es == PathTableEntries(files, root_dir, written_files)
           ltable == TableBytes(es, "LittleEndian")
           mtable == TableBytes(es, "BigEndian")
           end == Align(pos + Len(ltable.bytes))
           ref == DirectoryRef(Unwrap(sector), end - Unwrap(sector) * 2048)
           mtable_end == Align(end + Len(mtable.bytes))
       IN  IF ~IsSome(sector)
           THEN /\ Panicked("Seek must be a multiple of 2048")
                /\ UNCHANGED <<sink, sink_len, pos, path_table, table_entries, placed>>
           ELSE IF ltable.panic
           THEN /\ Panicked("assertion failed: header.len == name.len()")
                /\ sink' = WriteAll(sink, pos, ltable.bytes)
                /\ sink_len' = WriteEnd(sink_len, pos, ltable.bytes)
                /\ pos' = pos + Len(ltable.bytes)
                /\ UNCHANGED <<path_table, table_entries, placed>>
           ELSE IF mtable.panic
           THEN /\ Panicked("assertion failed: header.len == name.len()")
                /\ sink' = WriteAll(WriteAll(sink, pos, ltable.bytes), end, mtable.bytes)
                /\ sink_len' = WriteEnd(WriteEnd(sink_len, pos, ltable.bytes), end,
                                        mtable.bytes)
                /\ pos' = end + Len(mtable.bytes)
                /\ UNCHANGED <<path_table, table_entries, placed>>
           ELSE /\ sink' = WriteAll(WriteAll(sink, pos, ltable.bytes), end, mtable.bytes)
                /\ sink_len' = WriteEnd(WriteEnd(sink_len, pos, ltable.bytes), end,
                                        mtable.bytes)
                /\ pos' = mtable_end
                /\ placed' = placed \o <<Placement("l_table", <<>>, ref.offset, pos,
                                                   Len(ltable.bytes)),
                                         Placement("m_table", <<>>, ref.offset + ref.size \div 2048,
                                                   end, Len(mtable.bytes))>>
                /\ table_entries' = es
                /\ IF mtable_end - end # ref.size
                   THEN /\ Panicked("assertion failed: mtable_end - end == path_table_ref.size")
                        /\ UNCHANGED path_table
                   ELSE /\ path_table' = ref
                        /\ pc' = "fill_primary"
                        /\ UNCHANGED out
    /\ UNCHANGED <<inputVars, volume_descriptors, files, written_files, idx, stack,
                   root_dir, iso, dir, pureVars>>

\* a slip in lines 298-306: the M table recorded at the L table's LBA
FilledPrimaryMAtL(pvd, root, table) ==
    [pvd EXCEPT !.dir_record = WithDataLen(WithExtent(SubSeq(@, 1, 33), AsU32(root.offset)),
                                           AsU32(root.size)) \o SubSeq(@, 34, 34),
                !.path_table_size = AsU32(table.size),
                !.type_l_path_table = AsU32(table.offset),
                !.type_m_path_table = AsU32(table.offset)]

\* u32 + u32 passes u32::MAX, decided on the 16-bit halves, and the sum as
\* wrapping_add gives it
U32AddOverflows(a, b) ==
    (a \div 65536) + (b \div 65536) + ((a % 65536) + (b % 65536)) \div 65536 >= 65536
U32WrappingAdd(a, b) ==
    LET low == (a % 65536) + (b % 65536)
        high == (a \div 65536) + (b \div 65536) + (low \div 65536)
    IN  (low % 65536) + 65536 * (high % 65536)

\* the fields format_new has stored in the primary descriptor when it comes
\* to add up the M table's LBA (lines 298-303)
PartlyFilledPrimary(pvd, root, table) ==
    [pvd EXCEPT !.dir_record = WithDataLen(WithExtent(SubSeq(@, 1, 33), AsU32(root.offset)),
                                           AsU32(root.size)) \o SubSeq(@, 34, 34),
                !.path_table_size = AsU32(table.size),
                !.type_l_path_table = AsU32(table.offset)]

\* the fields format_new stores in the primary descriptor (lines 298-306)
FilledPrimary(pvd, root, table) ==
    [pvd EXCEPT !.dir_record = WithDataLen(WithExtent(SubSeq(@, 1, 33), AsU32(root.offset)),
                                           AsU32(root.size)) \o SubSeq(@, 34, 34),
                !.path_table_size = AsU32(table.size),
                !.type_l_path_table = AsU32(table.offset),
                !.type_m_path_table = U32WrappingAdd(AsU32(table.offset),
                                                     AsU32(table.size \div 2048))]

\* lines 298-306, in a build with or without overflow checks: the sum of
\* line 304-305 is a u32 addition
FillPrimary ==
    /\ pc = "fill_primary"
    /\ \E overflow_checks \in BOOLEAN :
       LET i == FindDescriptor(volume_descriptors, "Primary")
       IN  IF i = 0
           THEN /\ Panicked("Primary volume descriptor not found")
                /\ UNCHANGED volume_descriptors
           ELSE IF overflow_checks /\ U32AddOverflows(AsU32(path_table.offset),
                                                       AsU32(path_table.size \div 2048))
           THEN /\ Panicked("attempt to add with overflow")
                /\ volume_descriptors' =
                       [volume_descriptors EXCEPT
                            ![i] = PartlyFilledPrimary(@, root_dir, path_table)]
           ELSE /\ volume_descriptors' =
                       [volume_descriptors EXCEPT ![i] = FilledPrimary(@, root_dir, path_table)]
                /\ pc' = IF IsSome(ops.el_torito) THEN "el_torito" ELSE "write_descriptors"
                /\ UNCHANGED out
    /\ UNCHANGED <<inputVars, sink, sink_len, pos, files, written_files, idx, stack,
                   root_dir, path_table, table_entries, placed, iso, dir, pureVars>>

\* the sectors a u32 byte offset reaches: from this LBA on `lba * 2048`
\* overflows u32, a panic in a build with overflow checks
U32Sectors == 2097152

\* the El Torito block of format_new (lines 308-360), in a build with or
\* without overflow checks
ElTorito ==
    /\ pc = "el_torito"
    /\ \E overflow_checks \in BOOLEAN :
       LET el == Unwrap(ops.el_torito)
           es == EntriesOf(sink, sink_len, root_dir)
           IsBoot(r) == IsoStringToStr(r.name) = el.boot_image_path
           file == FirstEntry(es.entries, IsBoot)
           current_index == Align(EntriesEnd(sink_len, root_dir))
           boot_image_lba == HeaderExtent(Unwrap(file).header)
           byte_offset == AsU32(boot_image_lba * 2048)
           size_sectors ==
               volume_descriptors[FindDescriptor(volume_descriptors, "Primary")].volume_space_size
           table == BootInfoTableBytes(16, boot_image_lba, size_sectors,
                                       AsU32(boot_image_lba * 2048), byte_offset)
           snk1 == IF el.boot_info_table THEN WriteAll(sink, byte_offset + 8, table) ELSE sink
           len1 == IF el.boot_info_table
                   THEN WriteEnd(sink_len, byte_offset + 8, table) ELSE sink_len
           catalogue_start == Align(current_index) \div 2048
           validation == BootValidationEntryNew(TRUE)
           catalogue == BootCatalogueWrite(Unwrap(validation), 0, el.load_size, boot_image_lba)
           b == FindDescriptor(volume_descriptors, "BootRecord")
       IN  IF es.status # "ok"
           THEN /\ pc' = "panicked"
                /\ out' = Some([call |-> "format_new", status |-> es.status,
                                value |-> "entries"])
                /\ pos' = EntriesEnd(sink_len, root_dir)
                /\ UNCHANGED <<sink, sink_len, volume_descriptors, placed>>
           ELSE IF ~IsSome(file)
           THEN /\ Panicked("Could not find the boot image path in ISO filesystem")
                /\ pos' = EntriesEnd(sink_len, root_dir)
                /\ UNCHANGED <<sink, sink_len, volume_descriptors, placed>>
           ELSE IF el.boot_info_table /\ overflow_checks /\ boot_image_lba >= U32Sectors
           THEN /\ Panicked("attempt to multiply with overflow")
                /\ pos' = current_index
                /\ UNCHANGED <<sink, sink_len, volume_descriptors, placed>>
           ELSE IF b = 0 \/ ~IsSome(validation)
           THEN /\ Panicked("unwrap")
                /\ sink' = snk1
                /\ sink_len' = len1
                /\ pos' = catalogue_start * 2048
                /\ UNCHANGED <<volume_descriptors, placed>>
           ELSE /\ volume_descriptors' =
                       [volume_descriptors EXCEPT ![b].catalog_ptr = AsU32(catalogue_start)]
                /\ sink' = WriteAll(snk1, catalogue_start * 2048, catalogue)
                /\ sink_len' = WriteEnd(len1, catalogue_start * 2048, catalogue)
                /\ pos' = catalogue_start * 2048 + Len(catalogue)
                /\ placed' = Append(placed, Placement("catalogue", <<>>, AsU32(catalogue_start),
                                                      catalogue_start * 2048, Len(catalogue)))
                /\ pc' = "write_descriptors"
                /\ UNCHANGED out
    /\ UNCHANGED <<inputVars, files, written_files, idx, stack, root_dir, path_table,
                   table_entries, iso, dir, pureVars>>

\* the end of format_new (lines 361-366)
WriteDescriptors ==
    /\ pc = "write_descriptors"
    /\ LET bytes == VolumeDescriptorListWrite(volume_descriptors)
           start == SystemAreaSectors * 2048
       IN  /\ sink' = WriteAll(sink, start, bytes)
           /\ sink_len' = WriteEnd(sink_len, start, bytes)
           /\ pos' = start + Len(bytes)
           /\ placed' = Append(placed, Placement("descriptors", <<>>, SystemAreaSectors,
                                                 start, Len(bytes)))
    /\ pc' = "formatted"
    /\ out' = Some([call |-> "format_new", status |-> "ok", value |-> ""])
    /\ UNCHANGED <<inputVars, formatVars, iso, dir, pureVars>>

-----------------------------------------------------------------------------
(* The reader: IsoImage::new and the handles it gives out *)

\* std::str::from_utf8 accepts the bytes from index i on; the ASCII bytes up
\* to the next byte of 128 or more are passed over in one step
RECURSIVE Utf8Valid(_, _)
Utf8Valid(b, i) ==
    LET high == {j \in i..Len(b) : b[j] >= 128}
        k == CHOOSE j \in high : \A m \in high : j <= m
        Cont(j, lo, hi) == j <= Len(b) /\ b[j] >= lo /\ b[j] <= hi
        c == b[k]
    IN  IF high = {} THEN TRUE
        ELSE IF c \in 194..223 THEN Cont(k + 1, 128, 191) /\ Utf8Valid(b, k + 2)
        ELSE IF c \in 224..239
        THEN /\ Cont(k + 1, IF c = 224 THEN 160 ELSE 128, IF c = 237 THEN 159 ELSE 191)
             /\ Cont(k + 2, 128, 191) /\ Utf8Valid(b, k + 3)
        ELSE IF c \in 240..244
        THEN /\ Cont(k + 1, IF c = 240 THEN 144 ELSE 128, IF c = 244 THEN 143 ELSE 191)
             /\ Cont(k + 2, 128, 191) /\ Cont(k + 3, 128, 191) /\ Utf8Valid(b, k + 4)
        ELSE FALSE

\* the loop of VolumeDescriptorList::parse from byte offset `off`: the 2048-byte
\* records before the set terminator; "err" at the end of the sink, "panic" on
\* a record whose identifier is not CD001; pos is where the cursor is left
RECURSIVE ParseDescriptors(_, _, _)
ParseDescriptors(snk, len, off) ==
    IF ReadFails(off, 2048, len)
    THEN [status |-> "err", descriptors |-> <<>>, pos |-> ReadEnd(off, 2048, len)]
    ELSE LET buffer == ReadExact(snk, off, 2048)
         IN  IF buffer[1] = TypeSetTerminator
             THEN [status |-> "ok", descriptors |-> <<>>, pos |-> off + 2048]
             ELSE IF ~HeaderIsValid(SubSeq(buffer, 1, 7))
             THEN [status |-> "panic", descriptors |-> <<>>, pos |-> off + 2048]
             ELSE LET rest == ParseDescriptors(snk, len, off + 2048)
                  IN  [status |-> rest.status, descriptors |-> <<buffer>> \o rest.descriptors,
                       pos |-> rest.pos]

\* typed accessors of a parsed primary descriptor and boot record
PvdPathTableSize(b) == LsbMsbRead(SubSeq(b, 133, 140), 4)
PvdTypeLPathTable(b) == FromLe(SubSeq(b, 141, 144))
PvdTypeMPathTable(b) == FromBe(SubSeq(b, 149, 152))
PvdDirRecord(b) == SubSeq(b, 157, 190)
BootCatalogPtr(b) == FromLe(SubSeq(b, 72, 75))

\* the first parsed descriptor with the type byte ty, as an Option
FirstOfType(ds, ty) ==
    IF \E i \in 1..Len(ds) : ds[i][1] = ty
    THEN Some(ds[CHOOSE i \in 1..Len(ds) : ds[i][1] = ty /\ \A j \in 1..(i - 1) : ds[j][1] # ty])
    ELSE None

\* how a parse of the catalogue ends: its status and the cursor it leaves
Parsed(status, at) == [status |-> status, pos |-> at]

\* the section loop of BootCatalogue::parse from byte offset `off`
RECURSIVE ParseSections(_, _, _, _, _)
ParseSections(snk, len, off, has_more, has_header) ==
    IF ReadFails(off, 32, len) THEN Parsed("err", ReadEnd(off, 32, len))
    ELSE LET id == ReadExact(snk, off, 1)[1]
         IN  IF id = 0 /\ ~has_more THEN Parsed("ok", off + 32)
             ELSE IF id = 144 THEN ParseSections(snk, len, off + 32, TRUE, TRUE)
             ELSE IF id = 145 THEN ParseSections(snk, len, off + 32, FALSE, TRUE)
             ELSE IF ~has_header THEN Parsed("panic", off + 32)
             ELSE ParseSections(snk, len, off + 32, has_more, has_header)

\* BootCatalogue::parse at byte offset `off`: "ok", "err" or "panic", and the
\* cursor it leaves
BootCatalogueParse(snk, len, off, overflow_checks) ==
    IF ReadFails(off, 32, len) THEN Parsed("err", ReadEnd(off, 32, len))
    ELSE IF ValidationIsValid(ReadExact(snk, off, 32), overflow_checks) # "true"
    THEN Parsed("panic", off + 32)
    ELSE IF ReadFails(off + 32, 32, len) THEN Parsed("err", ReadEnd(off + 32, 32, len))
    ELSE IF ReadExact(snk, off + 32, 1)[1] # 136 THEN Parsed("panic", off + 64)
    ELSE ParseSections(snk, len, off + 64, FALSE, FALSE)

\* PathTableEntry::parse and the loop of IsoPathTable::entries over the table at
\* byte offset `off`, `i` the bytes consumed so far of `size`
RECURSIVE PathTableParse(_, _, _, _, _, _)
PathTableParse(snk, len, off, i, size, endian) ==
    IF i >= size THEN [status |-> "ok", entries |-> <<>>, pos |-> off + i]
    ELSE IF ReadFails(off + i, 8, len)
    THEN [status |-> "err", entries |-> <<>>, pos |-> ReadEnd(off + i, 8, len)]
    ELSE LET h == ReadExact(snk, off + i, 8)
             n == h[1]
             padded == n + (n % 2)
             name == ReadExact(snk, off + i + 8, n)
             e == [length |-> n, extended_attr_record |-> h[2],
                   parent_lba |-> EndianRead(endian, SubSeq(h, 3, 6)),
                   parent_index |-> EndianRead(endian, SubSeq(h, 7, 8)),
                   name |-> name]
             after == off + i + 8 + padded
         IN  IF ReadFails(off + i + 8, padded, len)
             THEN [status |-> "err", entries |-> <<>>, pos |-> len]
             ELSE IF ~Utf8Valid(name, 1)
             THEN [status |-> "panic", entries |-> <<>>, pos |-> after]
             ELSE IF n = 0 THEN [status |-> "ok", entries |-> <<>>, pos |-> after]
             ELSE LET rest == PathTableParse(snk, len, off, i + PathTableEntrySize(e),
                                             size, endian)
                  IN  [status |-> rest.status, entries |-> <<e>> \o rest.entries,
                       pos |-> rest.pos]

\* IsoImage::new
Open ==
    /\ pc = "formatted"
    /\ \E overflow_checks \in BOOLEAN :
        LET parsed == ParseDescriptors(sink, sink_len, SystemAreaSectors * 2048)
            pvd == FirstOfType(parsed.descriptors, TypePrimary)
            boot == FirstOfType(parsed.descriptors, TypeBootRecord)
            catalogue == IF IsSome(boot)
                         THEN BootCatalogueParse(sink, sink_len,
                                  BootCatalogPtr(Unwrap(boot)) * 2048, overflow_checks)
                         ELSE Parsed("ok", sink_len)
            root_entry == PvdDirRecord(Unwrap(pvd))
        IN  IF parsed.status # "ok"
            THEN /\ pc' = "closed"
                 /\ out' = Some([call |-> "new", status |-> parsed.status, value |-> ""])
                 /\ pos' = parsed.pos
                 /\ UNCHANGED iso
            ELSE IF ~IsSome(pvd)
            THEN /\ pc' = "closed"
                 /\ out' = Some([call |-> "new", status |-> "panic", value |-> ""])
                 /\ pos' = sink_len
                 /\ UNCHANGED iso
            ELSE IF catalogue.status # "ok"
            THEN /\ pc' = "closed"
                 /\ out' = Some([call |-> "new", status |-> catalogue.status, value |-> ""])
                 /\ pos' = catalogue.pos
                 /\ UNCHANGED iso
            ELSE /\ pc' = "open"
                 /\ out' = Some([call |-> "new", status |-> "ok", value |-> ""])
                 /\ pos' = catalogue.pos
                 /\ iso' = Some([root_directory |->
                                     DirectoryRef(HeaderExtent(root_entry),
                                                  HeaderDataLen(root_entry)),
                                 path_table |->
                                     [lpath_table_offset |-> PvdTypeLPathTable(Unwrap(pvd)),
                                      mpath_table_offset |-> PvdTypeMPathTable(Unwrap(pvd)),
                                      size |-> PvdPathTableSize(Unwrap(pvd))]])
    /\ UNCHANGED <<inputVars, formatVars, sink, sink_len, placed, dir, pureVars>>

\* IsoImage::root_directory; the handle's path is kept as history
RootDirectory ==
    /\ pc = "open"
    /\ dir' = Some([directory |-> Unwrap(iso).root_directory, path |-> <<>>])
    /\ out' = Some([call |-> "root_directory", status |-> "ok", value |-> ""])
    /\ UNCHANGED <<inputVars, formatVars, pc, sink, sink_len, pos, placed, iso, pureVars>>

\* IsoDirectory::find_directory(name)
FindDirectory(name) ==
    /\ pc = "open"
    /\ IsSome(dir)
    /\ LET d == Unwrap(dir)
           es == EntriesOf(sink, sink_len, d.directory)
           Wanted(r) == IsoStringToStr(r.name) = name /\ IsDirectory(r.header)
           found == FirstEntry(es.entries, Wanted)
       IN  IF es.status # "ok"
           THEN /\ out' = Some([call |-> "find_directory", status |-> es.status, value |-> ""])
                /\ pc' = IF es.status = "panic" THEN "closed" ELSE pc
                /\ UNCHANGED dir
           ELSE IF ~IsSome(found)
           THEN /\ out' = Some([call |-> "find_directory", status |-> "none", value |-> ""])
                /\ UNCHANGED <<pc, dir>>
           ELSE /\ out' = Some([call |-> "find_directory", status |-> "ok", value |-> ""])
                /\ dir' = Some([directory |->
                                    DirectoryRef(HeaderExtent(Unwrap(found).header),
                                                 HeaderDataLen(Unwrap(found).header)),
                                path |-> Join(d.path, name)])
                /\ UNCHANGED pc
    /\ pos' = EntriesEnd(sink_len, Unwrap(dir).directory)
    /\ UNCHANGED <<inputVars, formatVars, sink, sink_len, placed, iso, pureVars>>

\* IsoDirectory::read_file(name): the bytes read, or "not_found", or "err"
\* when read_exact meets the end of the sink
ReadFile(name) ==
    /\ pc = "open"
    /\ IsSome(dir)
    /\ LET d == Unwrap(dir)
           es == EntriesOf(sink, sink_len, d.directory)
           Wanted(r) == IsoStringToStr(r.name) = name
           found == FirstEntry(es.entries, Wanted)
           data_len == HeaderDataLen(Unwrap(found).header)
           at == HeaderExtent(Unwrap(found).header)
           Result(status, bytes) ==
               Some([call |-> "read_file", status |-> status, path |-> d.path,
                     name |-> name, value |-> bytes])
       IN  IF es.status # "ok"
           THEN /\ out' = Result(es.status, <<>>)
                /\ pc' = IF es.status = "panic" THEN "closed" ELSE pc
                /\ pos' = EntriesEnd(sink_len, d.directory)
           ELSE IF ~IsSome(found)
           THEN /\ out' = Result("not_found", <<>>)
                /\ pos' = EntriesEnd(sink_len, d.directory)
                /\ UNCHANGED pc
           ELSE IF ReadFails(at, data_len, sink_len)
           THEN /\ out' = Result("err", <<>>)
                /\ pos' = ReadEnd(at, data_len, sink_len)
                /\ UNCHANGED pc
           ELSE /\ out' = Result("ok", ReadExact(sink, at, data_len))
                /\ pos' = ReadEnd(at, data_len, sink_len)
                /\ UNCHANGED pc
    /\ UNCHANGED <<inputVars, formatVars, sink, sink_len, placed, iso, dir, pureVars>>

\* IsoDirectory::entries, called on the handle: the (offset, record) pairs
IsoDirectoryEntries ==
    /\ pc = "open"
    /\ IsSome(dir)
    /\ LET d == Unwrap(dir)
           es == EntriesOf(sink, sink_len, d.directory)
       IN  /\ out' = Some([call |-> "entries", status |-> es.status, path |-> d.path,
                           value |-> es.entries])
           /\ pc' = IF es.status = "panic" THEN "closed" ELSE pc
           /\ pos' = EntriesEnd(sink_len, d.directory)
    /\ UNCHANGED <<inputVars, formatVars, sink, sink_len, placed, iso, dir, pureVars>>

\* target_endian of the build
Hosts == {"little", "big"}
\* ... and of the build whose reader the life cycle follows
TargetEndian == "little"

\* IsoImage::path_table followed by IsoPathTable::entries: the table of the
\* target's byte order is the one read
IsoPathTableEntries ==
    /\ pc = "open"
    /\ LET table == Unwrap(iso).path_table
           offset == IF TargetEndian = "little" THEN table.lpath_table_offset
                     ELSE table.mpath_table_offset
           es == PathTableParse(sink, sink_len, offset * 2048, 0, table.size,
                                IF TargetEndian = "little" THEN "LittleEndian"
                                ELSE "BigEndian")
       IN  /\ out' = Some([call |-> "path_table_entries", status |-> es.status,
                           value |-> es.entries])
           /\ pc' = IF es.status = "panic" THEN "closed" ELSE pc
           /\ pos' = es.pos
    /\ UNCHANGED <<inputVars, formatVars, sink, sink_len, placed, iso, dir, pureVars>>

-----------------------------------------------------------------------------
(* The image life cycle: format_new on a fresh sink, then the reader *)

\* the names the reader asks for: the tree's identifiers and, of an image
\* with El Torito, the boot image's
Lookups == Names \cup (IF IsSome(ops.el_torito) THEN {<<68>>} ELSE {})

\* nothing formatted, opened or computed yet
Unstarted ==
    /\ volume_descriptors = <<>>
    /\ files = <<>>
    /\ written_files = <<>>
    /\ idx = 0
    /\ stack = <<>>
    /\ root_dir = DirectoryRefDefault
    /\ path_table = DirectoryRefDefault
    /\ table_entries = <<>>
    /\ placed = <<>>
    /\ iso = None
    /\ dir = None
    /\ out = None
    /\ rec = None
    /\ entry = None

\* ... and the sink's cursor at its start
Idle ==
    /\ pos = 0
    /\ Unstarted

\* ... on a zero-filled sink
Blank ==
    /\ sink = <<>>
    /\ Idle

\* ... the sink sized to SinkSectors sectors (iso-cli: File::set_len)
Fresh ==
    /\ sink_len = SinkSectors * 2048
    /\ Blank

Init ==
    /\ ops \in FormatOptions
    /\ now \in Clocks
    /\ pc = "format_new"
    /\ Fresh

Next ==
    \/ FormatNew
    \/ WriteFileData
    \/ WriteDirectoryData
    \/ Backpatch
    \/ WritePathTable
    \/ FillPrimary
    \/ ElTorito
    \/ WriteDescriptors
    \/ Open
    \/ RootDirectory
    \/ \E name \in Lookups : FindDirectory(name)
    \/ \E name \in Lookups : ReadFile(name)
    \/ IsoDirectoryEntries
    \/ IsoPathTableEntries

Spec == Init /\ [][Next]_vars

-----------------------------------------------------------------------------
(* DirectoryRecord::new on its own, over identifiers of every length *)

\* the directory references and flag bytes handed to DirectoryRecord::new
RecordRefs == {DirectoryRef(18, 2048)}
RecordFlags == {0, FlagDirectory}

InitRecord ==
    /\ ops = [files |-> <<>>, el_torito |-> None]
    /\ now \in Clocks
    /\ pc = "record"
    /\ Fresh

\* DirectoryRecord::new(name, dir_ref, flags) for an identifier of n letters
NewRecord ==
    /\ pc = "record"
    /\ \E n \in 1..MaxIdLen, dir_ref \in RecordRefs, flags \in RecordFlags :
        LET name == Fill(n, 65)
        IN  rec' = Some([name |-> name, dir_ref |-> dir_ref, flags |-> flags,
                         record |-> DirectoryRecordNew(name, dir_ref, flags)])
    /\ UNCHANGED <<inputVars, formatVars, pc, sink, sink_len, pos, placed, readerVars, entry>>

NextRecord == NewRecord

SpecRecord == InitRecord /\ [][NextRecord]_vars

-----------------------------------------------------------------------------
(* BootValidationEntry on its own: new, and is_valid on parsed entries *)

\* the parsed 32-byte entries is_valid is asked about
EntryHeaderIds == {0, 1, 2}
EntryPlatformIds == {0, 239}
EntryReserved == {<<0, 0>>, <<255, 255>>, <<255, 254>>}
EntryChecksums == {0, 1, 21930, 43605}
EntryKeys == {<<85, 170>>, <<0, 0>>}
ParsedEntries ==
    {ValidationBytes(h, p, r, Zeros(24), c, k) :
        h \in EntryHeaderIds, p \in EntryPlatformIds, r \in EntryReserved,
        c \in EntryChecksums, k \in EntryKeys}

InitBoot ==
    /\ ops = [files |-> <<>>, el_torito |-> None]
    /\ now \in Clocks
    /\ pc = "boot"
    /\ Fresh

\* BootValidationEntry::new followed by is_valid, in a build with or without
\* overflow checks
NewValidationEntry ==
    /\ pc = "boot"
    /\ \E overflow_checks \in BOOLEAN :
        LET built == BootValidationEntryNew(overflow_checks)
        IN  entry' = Some([call |-> "new", overflow_checks |-> overflow_checks,
                           bytes |-> IF IsSome(built) THEN Unwrap(built) ELSE <<>>,
                           is_valid |-> IF IsSome(built)
                                        THEN ValidationIsValid(Unwrap(built), overflow_checks)
                                        ELSE "panic"])
    /\ UNCHANGED <<inputVars, formatVars, pc, sink, sink_len, pos, placed, readerVars, rec>>

\* BootValidationEntry::parse of 32 bytes followed by is_valid
ParseValidationEntry ==
    /\ pc = "boot"
    /\ \E bytes \in ParsedEntries, overflow_checks \in BOOLEAN :
        entry' = Some([call |-> "parse", overflow_checks |-> overflow_checks,
                       bytes |-> bytes,
                       is_valid |-> ValidationIsValid(bytes, overflow_checks)])
    /\ UNCHANGED <<inputVars, formatVars, pc, sink, sink_len, pos, placed, readerVars, rec>>

NextBoot == NewValidationEntry \/ ParseValidationEntry

SpecBoot == InitBoot /\ [][NextBoot]_vars

-----------------------------------------------------------------------------
(* format_new as its callers use it: sinks of either length, and the options *)
(* of the public contract                                                    *)

\* the options a caller holds: FormatOptions {files, el_torito} and the wish
\* for a protective MBR, for which FormatOptions has no field and which
\* format_new therefore never learns of
SinkOptions ==
    [files : UNION {ForestsOfSize(n) : n \in 0..MaxSinkNodes},
     el_torito : {None} \cup {Some(e) : e \in ElToritos},
     protective_mbr : BOOLEAN]

InitSink ==
    /\ ops \in SinkOptions
    /\ now \in Clocks
    /\ pc = "format_new"
    /\ sink_len \in {SmallSinkSectors * 2048, SinkSectors * 2048}
    /\ Blank

SpecSink == InitSink /\ [][Next]_vars

-----------------------------------------------------------------------------
(* IsoImage::new on images that format_new did not write *)

\* the standard identifiers found in the header of the first record
CorruptIdentifiers == {StrCD001, <<67, 68, 48, 48, 50>>, <<99, 100, 48, 48, 49>>, Zeros(5)}

\* a primary descriptor whose header carries the type byte and identifier given
PrimaryWithHeader(ty, identifier, t) ==
    <<ty>> \o identifier
        \o SubSeq(PrimaryBytes(PrimaryVolumeDescriptorNew(SinkSectors, t)), 7, 2048)

\* the sinks handed to IsoImage::new: an all-zero sink; a first record of any
\* of these headers followed by the set terminator; and a primary descriptor, a
\* Boot Record pointing to sector 19 and the terminator, sector 19 holding a
\* validation entry, a bootable default entry and no sections
CorruptSinks(t) ==
    {<<>>}
        \cup {WriteAll(<<>>, SystemAreaSectors * 2048,
                       PrimaryWithHeader(ty, id, t) \o SetTerminatorBytes) :
                  ty \in {TypePrimary, 2}, id \in CorruptIdentifiers}
        \cup {WriteAll(WriteAll(<<>>, SystemAreaSectors * 2048,
                                VolumeDescriptorListWrite(
                                    <<PrimaryVolumeDescriptorNew(SinkSectors, t),
                                      BootRecordVolumeDescriptorNew(19)>>)),
                       19 * 2048, validation \o BootSectionEntryNew(0, 0, 4, 20)) :
                  validation \in ParsedEntries}

InitCorrupt ==
    /\ ops = [files |-> <<>>, el_torito |-> None]
    /\ now \in Clocks
    /\ pc = "formatted"
    /\ sink \in CorruptSinks(now)
    /\ sink_len = SinkSectors * 2048
    /\ Idle

NextCorrupt == Open

SpecCorrupt == InitCorrupt /\ [][NextCorrupt]_vars

-----------------------------------------------------------------------------
(* IsoStr on its own: from_str and empty *)

\* the bytes the strings are made of: A a 0 space & $ _ .
StrAlphabet == {65, 97, 48, 32, 38, 36, 95, 46}
StrInputs == UNION {[1..n -> StrAlphabet] : n \in 0..MaxStrLen}
StrCharsets == {"A", "D"}

InitStr ==
    /\ ops = [files |-> <<>>, el_torito |-> None]
    /\ now \in Clocks
    /\ pc = "str"
    /\ Fresh

\* IsoStr::<C, N>::from_str(s)
FromStr ==
    /\ pc = "str"
    /\ \E charset \in StrCharsets, n \in 0..MaxStrWidth, s \in StrInputs :
        entry' = Some([call |-> "from_str", charset |-> charset, n |-> n, s |-> s,
                       result |-> IsoStrFromStr(charset, n, s)])
    /\ pc' = "str_done"
    /\ UNCHANGED <<inputVars, formatVars, sink, sink_len, pos, placed, readerVars, rec>>

\* IsoStr::<C, N>::empty()
Empty ==
    /\ pc = "str"
    /\ \E charset \in StrCharsets, n \in 0..MaxStrWidth :
        entry' = Some([call |-> "empty", charset |-> charset, n |-> n, s |-> <<>>,
                       result |-> Some(IsoStrEmpty(n))])
    /\ pc' = "str_done"
    /\ UNCHANGED <<inputVars, formatVars, sink, sink_len, pos, placed, readerVars, rec>>

NextStr == FromStr \/ Empty

SpecStr == InitStr /\ [][NextStr]_vars

-----------------------------------------------------------------------------
(* The byte primitives on their own, beside format_new *)

\* the values: 1, 2 or 4 limbs out of 0x0000, 0x1234 and 0xdef0
PrimLimbs == {0, 4660, 57072}
PrimValues == UNION {[1..n -> PrimLimbs] : n \in {1, 2, 4}}
PrimEndians == {"NativeEndian", "LittleEndian", "BigEndian"}

InitPrim ==
    /\ ops = [files |-> <<>>, el_torito |-> None]
    /\ now \in Clocks
    /\ pc = "prim"
    /\ Fresh

\* U16::<E>::new(v), U32::<E>::new(v) or U64::<E>::new(v), then get()
PrimNew ==
    /\ pc = "prim"
    /\ \E endian \in PrimEndians, host \in Hosts, v \in PrimValues :
        LET bytes == EndianNew(endian, host, v)
        IN  entry' = Some([call |-> "new", endian |-> endian, host |-> host,
                           value |-> v, bytes |-> bytes,
                           got |-> EndiannessGet(endian, host, bytes)])
    /\ pc' = "prim_scalar"
    /\ UNCHANGED <<inputVars, formatVars, sink, sink_len, pos, placed, readerVars, rec>>

\* set(w) on the scalar built before, then get()
PrimSet ==
    /\ pc = "prim_scalar"
    /\ \E w \in PrimValues :
        /\ Len(w) = Len(Unwrap(entry).value)
        /\ LET e == Unwrap(entry)
               bytes == EndiannessSet(e.endian, e.host, w)
           IN  entry' = Some([e EXCEPT !.call = "set", !.value = w, !.bytes = bytes,
                                       !.got = EndiannessGet(e.endian, e.host, bytes)])
    /\ pc' = "prim_done"
    /\ UNCHANGED <<inputVars, formatVars, sink, sink_len, pos, placed, readerVars, rec>>

\* LsbMsb::<T>::new(v), then read()
DualNew ==
    /\ pc = "prim"
    /\ \E host \in Hosts, v \in PrimValues :
        LET d == LsbMsbNew(host, v)
        IN  entry' = Some([call |-> "dual_new", endian |-> "LsbMsb", host |-> host,
                           value |-> v, bytes |-> d.lsb \o d.msb,
                           got |-> LsbMsbReadOn(host, d)])
    /\ pc' = "prim_dual"
    /\ UNCHANGED <<inputVars, formatVars, sink, sink_len, pos, placed, readerVars, rec>>

\* write(w) on the dual container built before, then read()
DualWrite ==
    /\ pc = "prim_dual"
    /\ \E w \in PrimValues :
        /\ Len(w) = Len(Unwrap(entry).value)
        /\ LET e == Unwrap(entry)
               n == Len(e.bytes) \div 2
               d == LsbMsbWrite(e.host, [lsb |-> SubSeq(e.bytes, 1, n),
                                         msb |-> SubSeq(e.bytes, n + 1, 2 * n)], w)
           IN  entry' = Some([e EXCEPT !.call = "dual_write", !.value = w,
                                       !.bytes = d.lsb \o d.msb,
                                       !.got = LsbMsbReadOn(e.host, d)])
    /\ pc' = "prim_done"
    /\ UNCHANGED <<inputVars, formatVars, sink, sink_len, pos, placed, readerVars, rec>>

InitEndian == Init \/ InitPrim

NextEndian ==
    \/ Next
    \/ PrimNew
    \/ PrimSet
    \/ DualNew
    \/ DualWrite

SpecEndian == InitEndian /\ [][NextEndian]_vars

-----------------------------------------------------------------------------
(* The declared layouts: the width in bytes of each field, in field order *)

\* VolumeDescriptorHeader: descriptor_type, standard_identifier, version
VolumeDescriptorHeaderWidths == <<1, 5, 1>>
\* DecDateTime: year, month, day, hour, minute, second, hundredths, timezone
DecDateTimeWidths == <<4, 2, 2, 2, 2, 2, 2, 1>>
\* DirectoryRecordHeader: len, extended_attr_record, extent, data_len,
\* date_time, flags, file_unit_size, interleave_gap_size,
\* volume_sequence_number, file_identifier_len
DirectoryRecordHeaderWidths == <<1, 1, 8, 8, 7, 1, 1, 1, 4, 1>>

RECURSIVE SumOf(_)
SumOf(widths) == IF widths = <<>> THEN 0 ELSE Head(widths) + SumOf(Tail(widths))

\* RootDirectoryEntry: header, padding
RootDirectoryEntryWidths == <<SumOf(DirectoryRecordHeaderWidths), 1>>

\* PrimaryVolumeDescriptor, from header to reserved
PrimaryVolumeDescriptorWidths ==
    <<SumOf(VolumeDescriptorHeaderWidths), 1, 32, 32, 8, 8, 32, 4, 4, 4, 8, 4, 4, 4, 4,
      SumOf(RootDirectoryEntryWidths), 128, 128, 128, 128, 37, 37, 37,
      SumOf(DecDateTimeWidths), SumOf(DecDateTimeWidths), SumOf(DecDateTimeWidths),
      SumOf(DecDateTimeWidths), 1, 1, 512, 653>>
\* BootRecordVolumeDescriptor: header, boot_system_identifier, unused0,
\* catalog_ptr, unused1
BootRecordVolumeDescriptorWidths == <<SumOf(VolumeDescriptorHeaderWidths), 32, 32, 4, 1973>>
\* VolumeDescriptorSetTerminator: header, padding
VolumeDescriptorSetTerminatorWidths == <<SumOf(VolumeDescriptorHeaderWidths), 2041>>
\* UnknownVolumeDescriptor: header, data
UnknownVolumeDescriptorWidths == <<SumOf(VolumeDescriptorHeaderWidths), 2041>>
\* BootValidationEntry: header_id, platform_id, reserved, manufacturer,
\* checksum, key
BootValidationEntryWidths == <<1, 1, 2, 24, 2, 2>>
\* BootSectionHeaderEntry: header_type, platform_id, section_count,
\* section_ident
BootSectionHeaderEntryWidths == <<1, 1, 2, 28>>
\* BootSectionEntry: boot_indicator, boot_media_type, load_segment,
\* system_type, reserved0, sector_count, load_rba, selection_criteria,
\* vendor_unique
BootSectionEntryWidths == <<1, 1, 2, 1, 1, 2, 4, 1, 19>>

-----------------------------------------------------------------------------
(* format_new on wide trees: a root whose records fill a sector *)

\* the identifier lengths of the last child: with the other children's
\* records 244 bytes of the first sector are left, of which a last record of
\* these lengths leaves 110, 32, 2 and 0, or which it exceeds by 2
WideLastLens == {100, 179, 209, 211, 213}

\* WideChildren - 1 empty files of identifiers A..A0, A..A1, ... and a last
\* child, a file or a directory, of identifier B..B of length k
WideTree(k, kind) ==
    [i \in 1..WideChildren |->
        IF i < WideChildren THEN File(Fill(WideNameLen - 1, 65) \o <<47 + i>>, <<>>)
        ELSE IF kind = "File" THEN File(Fill(k, 66), <<>>)
        ELSE Directory(Fill(k, 66), <<>>)]

WideOptions ==
    [files : {WideTree(k, kind) : k \in WideLastLens, kind \in {"File", "Directory"}},
     el_torito : {None} \cup {Some(e) : e \in ElToritos}]

InitWide ==
    /\ ops \in WideOptions
    /\ now \in Clocks
    /\ pc = "format_new"
    /\ Fresh

SpecWide == InitWide /\ [][Next]_vars

-----------------------------------------------------------------------------
(* BootCatalogue::parse on its own, one action per turn of its loop *)

\* the leading bytes of the entries after the default entry: a zero entry,
\* the headers 0x90 and 0x91, and a section entry 0x88
CatalogueIds == {0, 144, 145, 136}
CatalogueTails == UNION {[1..n -> CatalogueIds] : n \in 0..MaxCatalogueEntries}
\* the byte offset of the catalogue in the sink
CatalogueAt == 19 * 2048

\* a valid validation entry, a bootable default entry, then the entries of
\* the leading bytes given
CatalogueBytes(tail) ==
    Unwrap(BootValidationEntryNew(FALSE)) \o BootSectionEntryNew(0, 0, 4, 20)
        \o Concat([i \in 1..Len(tail) |-> <<tail[i]>> \o Zeros(31)])

\* the sink ends with the last entry, or with the catalogue's sector, which
\* zero bytes fill; the caller of parse has moved the cursor to the catalogue
\* (lib.rs line 376)
InitCatalogue ==
    /\ ops = [files |-> <<>>, el_torito |-> None]
    /\ now \in Clocks
    /\ pc = "catalogue"
    /\ \E tail \in CatalogueTails :
        /\ sink = WriteAll(<<>>, CatalogueAt, CatalogueBytes(tail))
        /\ sink_len \in {CatalogueAt + Len(CatalogueBytes(tail)), CatalogueAt + 2048}
    /\ pos = CatalogueAt
    /\ Unstarted

\* BootCatalogue::parse up to its loop (lines 35-48), in a build with or
\* without overflow checks; it reads where the reader's cursor stands
CatalogueParse ==
    /\ pc = "catalogue"
    /\ \E overflow_checks \in BOOLEAN :
        LET r == IF ReadFails(pos, 32, sink_len)
                 THEN Parsed("err", ReadEnd(pos, 32, sink_len))
                 ELSE IF ValidationIsValid(ReadExact(sink, pos, 32), overflow_checks) # "true"
                 THEN Parsed("panic", pos + 32)
                 ELSE IF ReadFails(pos + 32, 32, sink_len)
                 THEN Parsed("err", ReadEnd(pos + 32, 32, sink_len))
                 ELSE IF ReadExact(sink, pos + 32, 1)[1] # 136
                 THEN Parsed("panic", pos + 64)
                 ELSE Parsed("loop", pos + 64)
        IN  /\ entry' = Some([call |-> "parse", has_more |-> FALSE, has_header |-> FALSE,
                              read |-> None, status |-> r.status])
            /\ pos' = r.pos
            /\ pc' = IF r.status = "loop" THEN "catalogue_loop" ELSE "catalogue_done"
    /\ UNCHANGED <<inputVars, formatVars, sink, sink_len, placed, readerVars, rec>>

\* one turn of the loop of BootCatalogue::parse (lines 49-76), and what
\* follows the loop when the turn breaks out of it (lines 78-87)
CatalogueTurn ==
    /\ pc = "catalogue_loop"
    /\ LET e == Unwrap(entry)
           id == ReadExact(sink, pos, 1)[1]
           Turn(status, has_more, has_header, read) ==
               /\ entry' = Some([e EXCEPT !.has_more = has_more, !.has_header = has_header,
                                          !.read = read, !.status = status])
               /\ pos' = ReadEnd(pos, 32, sink_len)
               /\ pc' = IF status = "loop" THEN pc ELSE "catalogue_done"
       IN  IF ReadFails(pos, 32, sink_len) THEN Turn("err", e.has_more, e.has_header, None)
           ELSE IF id = 0 /\ ~e.has_more THEN Turn("ok", e.has_more, e.has_header, Some(id))
           ELSE IF id = 144 THEN Turn("loop", TRUE, TRUE, Some(id))
           ELSE IF id = 145 THEN Turn("loop", FALSE, TRUE, Some(id))
           ELSE IF ~e.has_header THEN Turn("panic", e.has_more, e.has_header, Some(id))
           ELSE Turn("loop", e.has_more, e.has_header, Some(id))
    /\ UNCHANGED <<inputVars, formatVars, sink, sink_len, placed, readerVars, rec>>

NextCatalogue == CatalogueParse \/ CatalogueTurn

SpecCatalogue == InitCatalogue /\ [][NextCatalogue]_vars

-----------------------------------------------------------------------------
(* format_new on user-supplied names of every kind *)

\* the names: "A", "A*", "A B", "A_", LongNameLen letters and MaxIdLen + 1
\* letters
NameInputs == {<<65>>, <<65, 42>>, <<65, 32, 66>>, <<65, 95>>, Fill(LongNameLen, 65),
               Fill(MaxIdLen + 1, 65)}

\* a file or an empty directory of that name in the root, or a file of that
\* name in a directory
NameTrees ==
    UNION {{<<File(n, <<104, 105>>)>>, <<Directory(n, <<>>)>>,
            <<Directory(<<66>>, <<File(n, <<>>)>>)>>} : n \in NameInputs}

NameOptions == [files : NameTrees, el_torito : {None} \cup {Some(e) : e \in ElToritos}]

InitNames ==
    /\ ops \in NameOptions
    /\ now \in Clocks
    /\ pc = "format_new"
    /\ Fresh

SpecNames == InitNames /\ [][Next]_vars

-----------------------------------------------------------------------------
(* DirectoryRecord::write on its own, over identifiers with and without spaces *)

\* the identifiers: the byte strings over 'A' and space
WrittenIds == UNION {[1..n -> {65, 32}] : n \in 1..MaxWrittenIdLen}

InitWrite ==
    /\ ops = [files |-> <<>>, el_torito |-> None]
    /\ now \in Clocks
    /\ pc = "record_new"
    /\ Fresh

\* DirectoryRecord::new(name, dir_ref, flags)
BuildRecord ==
    /\ pc = "record_new"
    /\ \E name \in WrittenIds, dir_ref \in RecordRefs, flags \in RecordFlags :
        rec' = Some([name |-> name, dir_ref |-> dir_ref, flags |-> flags,
                     record |-> DirectoryRecordNew(name, dir_ref, flags), written |-> None])
    /\ pc' = "record_write"
    /\ UNCHANGED <<inputVars, formatVars, sink, sink_len, pos, placed, readerVars, entry>>

\* DirectoryRecord::write of the record built, into an empty Vec
WriteRecord ==
    /\ pc = "record_write"
    /\ rec' = Some([Unwrap(rec) EXCEPT !.written = Some(DirectoryRecordWrite(Unwrap(rec).record))])
    /\ pc' = "record_written"
    /\ UNCHANGED <<inputVars, formatVars, sink, sink_len, pos, placed, readerVars, entry>>

NextWrite == BuildRecord \/ WriteRecord

SpecWrite == InitWrite /\ [][NextWrite]_vars

-----------------------------------------------------------------------------
(* The claims *)

\* the input tree flattened: every file and directory with its full path
InputFlat == FlatmapRecursive(Directory(<<>>, ops.files), <<>>)
InputFiles == {InputFlat[i] : i \in {j \in 1..Len(InputFlat) : InputFlat[j].kind = "File"}}
InputDirs == {InputFlat[i] : i \in {j \in 1..Len(InputFlat) : InputFlat[j].kind = "Directory"}}

\* the last call was read_file(name) on the directory of path `path`
ReadOf(path, name) ==
    /\ IsSome(out)
    /\ Unwrap(out).call = "read_file"
    /\ Unwrap(out).path = path
    /\ Unwrap(out).name = name

\* C1: round trip. After format_new and IsoImage::new on the same sink,
\* read_file(name) on the directory that holds a regular file of the input
\* returns exactly the bytes supplied for it.
C1_RoundTrip ==
    \A f \in InputFiles :
        ReadOf(ParentName(f.name), LastSegment(f.name))
            => Unwrap(out).status = "ok" /\ Unwrap(out).value = f.data

\* where format_new put the directory of path `name`, from the history of
\* placements: its LBA and its extent size (whole sectors)
PlacedDir(name) ==
    LET p == placed[CHOOSE i \in 1..Len(placed) :
                        placed[i].kind = "directory" /\ placed[i].name = name]
    IN  DirectoryRef(p.lba, RoundUpSector(p.len))

\* the record has this identifier and carries this extent and size
Carries(r, name, ref) ==
    /\ r.name = name
    /\ HeaderExtent(r.header) = ref.offset
    /\ HeaderDataLen(r.header) = ref.size

\* C2: after format_new succeeds, in every directory d of the tree the first
\* record (identifier 0x00) carries d's own extent LBA and size, the second
\* (identifier 0x01) those of d's parent (of the root itself for the root),
\* and the record for d inside its parent carries d's extent LBA and size.
C2_DirectoryPointers ==
    pc = "formatted" =>
        \A d \in InputDirs :
            LET self == PlacedDir(d.name)
                parent == IF d.name = <<>> THEN self ELSE PlacedDir(ParentName(d.name))
                es == EntriesOf(sink, sink_len, self).entries
                pes == EntriesOf(sink, sink_len, parent).entries
            IN  /\ Len(es) >= 2
                /\ Carries(es[1].record, <<0>>, self)
                /\ Carries(es[2].record, <<1>>, parent)
                /\ d.name # <<>> =>
                       \E i \in 3..Len(pes) :
                           /\ IsDirectory(pes[i].record.header)
                           /\ Carries(pes[i].record, LastSegment(d.name), self)

\* the L and the M table as IsoPathTable::entries decodes them from the sink,
\* given the table reference write_path_table returned
DecodedTable(endian) ==
    PathTableParse(sink, sink_len,
                   (IF endian = "BigEndian"
                    THEN path_table.offset + path_table.size \div 2048
                    ELSE path_table.offset) * 2048,
                   0, path_table.size, endian)

\* the path the entry of name `name` stands for: the root's is the byte 0x00
EntryPath(name) == IF name = <<0>> THEN <<>> ELSE name

\* C3: in the path table written by format_new the first entry is the root
\* (identifier the single byte 0x00, parent_index 1) and every other
\* directory's entry has as parent_index the 1-based position, in the same
\* table, of the entry of its parent.
C3_ParentIndex ==
    pc = "fill_primary" =>
        LET es == DecodedTable("LittleEndian").entries
        IN  /\ Len(es) = Cardinality(InputDirs)
            /\ es[1].name = <<0>>
            /\ es[1].parent_index = 1
            /\ \A i \in 2..Len(es) :
                   \E j \in 1..Len(es) :
                       /\ EntryPath(es[j].name) = ParentName(es[i].name)
                       /\ es[i].parent_index = j

\* the first placement of a kind in the history of placements
PlacedKind(kind) ==
    placed[CHOOSE i \in 1..Len(placed) :
               placed[i].kind = kind /\ \A j \in 1..(i - 1) : placed[j].kind # kind]

\* the primary volume descriptor as it stands in the image, at sector 16
ImagePvd == ReadExact(sink, SystemAreaSectors * 2048, 2048)

\* C4: the path_table_size format_new stores in the PVD is the byte length of
\* one path table, the sum over its entries of 8 + the name length rounded up
\* to even, not the sector-padded size; for the empty tree it is 10.
C4_PathTableSize ==
    pc = "formatted" =>
        /\ PvdPathTableSize(ImagePvd) = PlacedKind("l_table").len
        /\ ops.files = <<>> => PvdPathTableSize(ImagePvd) = 10

\* C5: every file extent, directory extent, path table, boot catalogue and
\* descriptor block begins at a byte offset that is a multiple of 2048 and
\* equals its recorded LBA times 2048, and the assertion of current_sector
\* never fails.
C5_SectorAligned ==
    /\ \A i \in 1..Len(placed) :
           /\ placed[i].start % 2048 = 0
           /\ placed[i].start = placed[i].lba * 2048
    /\ ~(pc = "panicked" /\ Unwrap(out).value = "Seek must be a multiple of 2048")

\* an image is finished in which a file whose length is no multiple of 2048
\* was followed by further placements
C5_Witness ==
    /\ pc = "formatted"
    /\ \E i \in 1..Len(placed) :
           /\ placed[i].kind = "file"
           /\ placed[i].len % 2048 # 0
           /\ \E j \in (i + 1)..Len(placed) : placed[j].kind = "file"
    /\ \E i \in 1..Len(placed) : placed[i].kind = "catalogue"

\* the file, directory and path-table placements, in the order they were made
LayoutOrder ==
    SelectSeq(placed, LAMBDA p : p.kind \in {"file", "directory", "l_table", "m_table"})

\* the rank of a kind of structure in the order the claim states
KindRank(kind) ==
    CASE kind = "file" -> 1
      [] kind = "directory" -> 2
      [] kind = "l_table" -> 3
      [] kind = "m_table" -> 4

\* the sectors a placement of `len` bytes spans
Span(len) == RoundUpSector(len) \div 2048

\* C6: format_new places the volume descriptors from LBA 16, then the file
\* extents, the directory extents, the L path table and the M path table,
\* each right after the one before; the PVD records the root directory's LBA
\* and size, the L table's LBA, and for the M table the L table's LBA plus
\* its sector span. The empty tree without El Torito has the PVD at LBA 16,
\* the set terminator at 17, the root directory at 18 holding exactly the
\* records 0x00 and 0x01 (both with LBA 18, size 2048), the L table at 19
\* and the M table at 20.
C6_Layout ==
    pc = "formatted" =>
        LET order == LayoutOrder
            descs == PlacedKind("descriptors")
            root == PlacedDir(<<>>)
            ltable == PlacedKind("l_table")
            record == PvdDirRecord(ImagePvd)
            es == EntriesOf(sink, sink_len, root).entries
        IN  /\ descs.lba = 16
            /\ order[1].lba = descs.lba + Span(descs.len)
            /\ \A i \in 1..(Len(order) - 1) :
                   /\ KindRank(order[i].kind) <= KindRank(order[i + 1].kind)
                   /\ order[i + 1].lba = order[i].lba + Span(order[i].len)
            /\ order[Len(order)].kind = "m_table"
            /\ order[Len(order) - 1].kind = "l_table"
            /\ HeaderExtent(record) = root.offset
            /\ HeaderDataLen(record) = root.size
            /\ PvdTypeLPathTable(ImagePvd) = ltable.lba
            /\ PvdTypeMPathTable(ImagePvd) = ltable.lba + Span(ltable.len)
            /\ (ops.files = <<>> /\ ~IsSome(ops.el_torito)) =>
                   /\ ReadExact(sink, 16 * 2048, 1) = <<TypePrimary>>
                   /\ ReadExact(sink, 17 * 2048, 1) = <<TypeSetTerminator>>
                   /\ root = DirectoryRef(18, 2048)
                   /\ Len(es) = 2
                   /\ Carries(es[1].record, <<0>>, root)
                   /\ Carries(es[2].record, <<1>>, root)
                   /\ PvdTypeLPathTable(ImagePvd) = 19
                   /\ PvdTypeMPathTable(ImagePvd) = 20
                   /\ PlacedKind("m_table").lba = 20

\* an image is finished that holds a file longer than a sector and a
\* directory below the root
C6_Witness ==
    /\ pc = "formatted"
    /\ \E i \in 1..Len(placed) : placed[i].kind = "file" /\ placed[i].len > 2048
    /\ \E d \in InputDirs : d.name # <<>>

\* C7: the L and the M path table written by format_new hold the same number
\* of entries in the same order, each pair with the same length, name and
\* decoded parent_lba and parent_index, so both occupy the same byte count
\* and the assert_eq of write_path_table never fails.
C7_TableSymmetry ==
    /\ pc = "formatted" =>
           LET l == DecodedTable("LittleEndian")
               m == DecodedTable("BigEndian")
           IN  /\ l.status = "ok"
               /\ m.status = "ok"
               /\ l.entries = m.entries
               /\ Len(l.entries) = Cardinality(InputDirs)
    /\ ~(pc = "panicked"
         /\ Unwrap(out).value = "assertion failed: mtable_end - end == path_table_ref.size")

\* the depth of the directory an entry stands for: the slashes of its path
RECURSIVE Depth(_)
Depth(name) ==
    IF name = <<0>> \/ Len(name) = 0 THEN 0
    ELSE (IF Head(name) = 47 THEN 1 ELSE 0) + Depth(Tail(name))

\* the position of the entry of the parent of entry i
ParentPosition(es, i) ==
    CHOOSE j \in 1..Len(es) : EntryPath(es[j].name) = ParentName(EntryPath(es[i].name))

\* C8: the entries of the path table written by format_new are ordered by
\* directory depth (root, then depth 1, then depth 2, ...) and within one
\* depth by the table index of the parent; no directory's entry precedes
\* the entry of its parent.
C8_TableOrder ==
    pc = "fill_primary" =>
        LET es == DecodedTable("LittleEndian").entries
        IN  /\ es[1].name = <<0>>
            /\ \A i, j \in 1..Len(es) :
                   i < j =>
                       /\ Depth(es[i].name) <= Depth(es[j].name)
                       /\ (Depth(es[i].name) = Depth(es[j].name) /\ i > 1)
                              => ParentPosition(es, i) <= ParentPosition(es, j)
            /\ \A i \in 2..Len(es) : ParentPosition(es, i) < i

\* C9: for every directory record built for an identifier of n bytes, n from
\* 1 to 255, the one-byte length field is even and equals
\* round_up_even(33 + n), and file_identifier_len equals n: nothing wraps or
\* is cut when the values are narrowed to one byte.
C9_RecordLength ==
    IsSome(rec) =>
        LET n == Len(Unwrap(rec).name)
            header == Unwrap(rec).record.header
        IN  n \in 1..255 =>
                /\ HeaderLen(header) % 2 = 0
                /\ HeaderLen(header) = RoundUpEven(33 + n)
                /\ HeaderFileIdentifierLen(header) = n

\* the sum modulo 2^16 of the sixteen little-endian words of an entry, the
\* checksum word included
RECURSIVE FullWordSum(_, _)
FullWordSum(bytes, i) ==
    IF i > 31 THEN 0
    ELSE (bytes[i] + 256 * bytes[i + 1] + FullWordSum(bytes, i + 2)) % 65536

\* C10: every validation entry built by BootValidationEntry::new has header
\* id 0x01, key bytes 0x55 0xAA and a checksum that makes the sum of its
\* sixteen little-endian words 0 modulo 2^16; is_valid accepts exactly the
\* entries of header id 0x01 that satisfy this sum.
C10_ValidationChecksum ==
    IsSome(entry) =>
        LET e == Unwrap(entry)
        IN  /\ e.call = "new" =>
                   /\ Len(e.bytes) = 32
                   /\ ValidationHeaderId(e.bytes) = 1
                   /\ SubSeq(e.bytes, 31, 32) = <<85, 170>>
                   /\ FullWordSum(e.bytes, 1) = 0
            /\ Len(e.bytes) = 32 =>
                   e.is_valid = (IF ValidationHeaderId(e.bytes) = 1
                                    /\ FullWordSum(e.bytes, 1) = 0
                                 THEN "true" ELSE "false")

\* the sector of the image at LBA `lba`
ImageSector(lba) == ReadExact(sink, lba * 2048, 2048)

\* where format_new wrote the first byte of the boot image
PlacedBootImage ==
    placed[CHOOSE i \in 1..Len(placed) :
               /\ placed[i].kind = "file"
               /\ placed[i].name = Join(<<>>, Unwrap(ops.el_torito).boot_image_path)]

\* the three 32-byte slots of the boot catalogue the Boot Record points to
ImageCatalogue == ReadExact(sink, BootCatalogPtr(ImageSector(17)) * 2048, 96)

RECURSIVE AddLe(_, _, _)
AddLe(a, b, carry) ==
    IF Len(a) = 0 THEN <<>>
    ELSE <<(Head(a) + Head(b) + carry) % 256>>
             \o AddLe(Tail(a), Tail(b), (Head(a) + Head(b) + carry) \div 256)

\* the sum modulo 2^32 of the little-endian u32 words of `bytes` from the
\* 1-based index i on, as four little-endian bytes
RECURSIVE WordSum32(_, _)
WordSum32(bytes, i) ==
    IF i + 3 > Len(bytes) THEN <<0, 0, 0, 0>>
    ELSE AddLe(SubSeq(bytes, i, i + 3), WordSum32(bytes, i + 4), 0)

\* the little-endian u32 words of a table of 56 bytes
TableWords(table) == {SubSeq(table, 4 * k + 1, 4 * k + 4) : k \in 0..13}

\* C12: with boot_info_table set, after format_new the 56 bytes at offsets
\* 8..64 of the boot image's extent hold a Boot Info Table with iso_start 16,
\* the boot image's LBA (the catalogue's load_rba), the boot image's length in
\* bytes and the checksum of its u32 words from offset 64 to its end, and the
\* boot image's bytes outside 8..64 are unchanged.
C12_BootInfoTable ==
    (pc = "formatted" /\ IsSome(ops.el_torito) /\ Unwrap(ops.el_torito).boot_info_table) =>
        LET orig == Unwrap(ops.el_torito).boot_image
            base == PlacedBootImage.start
            img == ReadExact(sink, base, Len(orig))
            table == SubSeq(img, 9, 64)
        IN  /\ SubSeq(table, 1, 4) = LeBytes(16, 4)
            /\ SubSeq(ImageCatalogue, 41, 44) = LeBytes(PlacedBootImage.lba, 4)
            /\ LeBytes(PlacedBootImage.lba, 4) \in TableWords(table)
            /\ LeBytes(Len(orig), 4) \in TableWords(table)
            /\ WordSum32(orig, 65) \in TableWords(table)
            /\ SubSeq(img, 1, 8) = SubSeq(orig, 1, 8)
            /\ SubSeq(img, 65, Len(orig)) = SubSeq(orig, 65, Len(orig))

\* C13: format_new never writes at or beyond the sink's initial length: a
\* tree that needs more sectors than the sink holds makes format_new return
\* an error, and the sink's length is the same after the call as before it.
C13_NeverGrows ==
    [][/\ sink_len' = sink_len
       /\ pc' = "formatted" =>
              \A i \in 1..Len(placed') : placed'[i].start + placed'[i].len <= sink_len]_vars

\* sector 0 holds a protective MBR: the boot signature, and at offset 446 a
\* partition entry of type 0x17 starting at LBA 1 and spanning the sink
HasProtectiveMbr ==
    LET mbr == ReadExact(sink, 0, 512)
    IN  /\ SubSeq(mbr, 511, 512) = <<85, 170>>
        /\ mbr[447 + 4] = 23
        /\ SubSeq(mbr, 447 + 8, 447 + 11) = LeBytes(1, 4)
        /\ SubSeq(mbr, 447 + 12, 447 + 15) = LeBytes(sink_len \div 2048, 4)

\* C14: after format, sector 0 of the sink contains a valid protective MBR
\* (bytes 510 and 511 equal 0x55 0xAA, partition entry at offset 446 with
\* type 0x17, start LBA 1 and size the sink's sector count) if and only if
\* the caller's options requested one.
C14_ProtectiveMbr ==
    pc = "formatted" => (HasProtectiveMbr <=> ops.protective_mbr)

\* a record before the set terminator, from sector lba on, whose standard
\* identifier is not CD001
RECURSIVE BadIdentifier(_)
BadIdentifier(lba) ==
    IF (lba + 1) * 2048 > sink_len \/ ImageSector(lba)[1] = TypeSetTerminator THEN FALSE
    ELSE SubSeq(ImageSector(lba), 2, 6) # StrCD001 \/ BadIdentifier(lba + 1)

\* the image has a Boot Record at sector 17 whose catalogue begins with a
\* validation entry of header id 0x01 whose words do not sum to 0
BadChecksum ==
    /\ ImageSector(17)[1] = TypeBootRecord
    /\ ImageCatalogue[1] = 1
    /\ FullWordSum(SubSeq(ImageCatalogue, 1, 32), 1) # 0

\* C15: opening a corrupt image reports an error value and never aborts:
\* VolumeDescriptorList::parse returns an error for a record whose standard
\* identifier is not exactly CD001, and BootCatalogue::parse returns an error
\* when the validation entry's checksum does not verify.
C15_CorruptReported ==
    (IsSome(out) /\ Unwrap(out).call = "new") =>
        /\ Unwrap(out).status # "panic"
        /\ BadIdentifier(16) => Unwrap(out).status = "err"
        /\ (~BadIdentifier(16) /\ BadChecksum) => Unwrap(out).status = "err"

\* C16: every 2048-byte record of the descriptor set format_new writes from
\* sector 16 on, the set terminator included, begins with its one-byte type
\* tag, the standard identifier CD001 and the version byte 1.
C16_RecordHeaders ==
    pc = "formatted" =>
        \A k \in 1..(Len(volume_descriptors) + 1) :
            LET record == ImageSector(SystemAreaSectors + k - 1)
                tag == IF k > Len(volume_descriptors) THEN TypeSetTerminator
                       ELSE IF volume_descriptors[k].type = "Primary" THEN TypePrimary
                       ELSE TypeBootRecord
            IN  /\ record[1] = tag
                /\ SubSeq(record, 2, 6) = StrCD001
                /\ record[7] = 1

\* the a-characters and d-characters as the specification lists them
SpecAChars == (65..90) \cup (48..57) \cup {32}
                  \cup {33, 34, 37, 38, 39, 40, 41, 42, 43, 44, 45, 46, 47,
                        58, 59, 60, 61, 62, 63}
SpecDChars == (65..90) \cup (48..57) \cup {95}

\* C17: IsoStr::from_str(s) for a fixed length N succeeds if and only if s
\* has at most N bytes and every byte of s is in the charset as the
\* specification defines it; on success the N stored bytes are s followed by
\* spaces; IsoStr::empty() is N spaces.
C17_FromStr ==
    (IsSome(entry) /\ Unwrap(entry).call \in {"from_str", "empty"}) =>
        LET e == Unwrap(entry)
            chars == IF e.charset = "A" THEN SpecAChars ELSE SpecDChars
        IN  IF e.call = "empty"
            THEN e.result = Some([i \in 1..e.n |-> 32])
            ELSE /\ IsSome(e.result) <=>
                        (Len(e.s) <= e.n /\ \A i \in 1..Len(e.s) : e.s[i] \in chars)
                 /\ IsSome(e.result) =>
                        Unwrap(e.result) = [i \in 1..e.n |-> IF i <= Len(e.s) THEN e.s[i] ELSE 32]

\* the little-endian and the big-endian copy of a dual field, the two halves
\* of b, decode to the same value
CopiesAgree(b) ==
    FromLe(SubSeq(b, 1, Len(b) \div 2)) = FromBe(SubSeq(b, Len(b) \div 2 + 1, Len(b)))

\* the dual fields of a 33-byte directory record header: extent, data_len and
\* volume_sequence_number
HeaderCopiesAgree(h) ==
    /\ CopiesAgree(SubSeq(h, 3, 10))
    /\ CopiesAgree(SubSeq(h, 11, 18))
    /\ CopiesAgree(SubSeq(h, 29, 32))

C19_StructSizes ==
    /\ SumOf(PrimaryVolumeDescriptorWidths) = 2048
    /\ SumOf(BootRecordVolumeDescriptorWidths) = 2048
    /\ SumOf(VolumeDescriptorSetTerminatorWidths) = 2048
    /\ SumOf(UnknownVolumeDescriptorWidths) = 2048
    /\ SumOf(BootValidationEntryWidths) = 32
    /\ SumOf(BootSectionHeaderEntryWidths) = 32
    /\ SumOf(BootSectionEntryWidths) = 32
    /\ \A i \in 1..Len(volume_descriptors) :
           Len(DescriptorBytes(volume_descriptors[i])) = 2048
    /\ Len(SetTerminatorBytes) = 2048
    /\ \A i \in 1..Len(placed) :
           /\ placed[i].kind = "descriptors" =>
                  placed[i].len = 2048 * (Len(volume_descriptors) + 1)
           /\ placed[i].kind = "catalogue" => placed[i].len = 3 * 32

\* an image with a primary descriptor and a Boot Record has been written,
\* its catalogue included
C19_Witness ==
    /\ pc = "formatted"
    /\ Len(volume_descriptors) = 2
    /\ FindDescriptor(volume_descriptors, "BootRecord") # 0
    /\ \E i \in 1..Len(placed) : placed[i].kind = "catalogue"
    /\ \E i \in 1..Len(placed) : placed[i].kind = "descriptors"

\* the record of identifier `name` that is not a directory, among the records
\* of the directory placed at `ref`, as a set of 33-byte headers
FileRecords(ref, name) ==
    LET es == EntriesOf(sink, sink_len, ref).entries
    IN  {es[i].record.header : i \in {j \in 1..Len(es) :
            es[j].record.name = name /\ ~IsDirectory(es[j].record.header)}}

\* the sectors at which format_new wrote the first byte of the file `name`
FileSectors(name) ==
    {placed[i].lba : i \in {j \in 1..Len(placed) :
        placed[j].kind = "file" /\ placed[j].name = name}}

\* C20: for every regular file of the input, the data-length field of its
\* directory record written by format_new equals the file's exact length in
\* bytes, not that length rounded up to a multiple of 2048, and its extent
\* field equals the sector at which the file's first byte was written.
C20_FileRecord ==
    pc = "formatted" =>
        \A f \in InputFiles :
            LET hs == FileRecords(PlacedDir(ParentName(f.name)), LastSegment(f.name))
            IN  /\ hs # {}
                /\ \A h \in hs :
                       /\ HeaderDataLen(h) = Len(f.data)
                       /\ HeaderExtent(h) \in FileSectors(f.name)

\* the headers of the records of identifier `name` in the directory the
\* reader holds, in the order of the extent
NamedHeaders(name) ==
    LET es == EntriesOf(sink, sink_len, Unwrap(dir).directory).entries
    IN  SelectSeq([i \in 1..Len(es) |-> es[i].record], LAMBDA r : r.name = name)

\* C21: IsoDirectory::read_file(name) returns exactly data_len bytes read from
\* byte offset extent * 2048 of the image, extent and data_len being those of
\* the first record of the directory whose identifier equals name; when no
\* record has that identifier it returns a not-found error and no file data.
C21_ReadFile ==
    (IsSome(out) /\ Unwrap(out).call = "read_file" /\ IsSome(dir)) =>
        LET o == Unwrap(out)
            hs == NamedHeaders(o.name)
        IN  IF hs = <<>>
            THEN o.status = "not_found" /\ o.value = <<>>
            ELSE /\ o.status = "ok"
                 /\ o.value = ReadExact(sink, HeaderExtent(hs[1].header) * 2048,
                                        HeaderDataLen(hs[1].header))

\* the tree format_new writes: the input's, with the boot image as the last
\* child of the root when El Torito is asked for
WrittenTree ==
    ops.files \o (IF IsSome(ops.el_torito)
                  THEN <<File(Unwrap(ops.el_torito).boot_image_path,
                              Unwrap(ops.el_torito).boot_image)>>
                  ELSE <<>>)

\* the identifiers of the records format_new writes for the directory of path
\* `name`: 0x00, 0x01, then the children in order
WrittenNames(name) ==
    LET flat == FlatmapRecursive(Directory(<<>>, WrittenTree), <<>>)
        d == flat[CHOOSE j \in 1..Len(flat) :
                      flat[j].kind = "Directory" /\ flat[j].name = name]
    IN  <<(<<0>>), (<<1>>)>> \o [i \in 1..Len(d.entries) |-> LastSegment(d.entries[i].name)]

\* the byte offset of the k-th of the records of these identifiers
RECURSIVE RecordOffset(_, _)
RecordOffset(names, k) ==
    IF k = 1 THEN 0
    ELSE RecordOffset(names, k - 1)
             + RoundUpEven(DirectoryRecordHeaderSize + Len(names[k - 1]))

\* C22: for every directory extent written by format_new, whatever the number
\* of children and their name lengths, IsoDirectory::entries() returns
\* exactly the records written (`.`, `..`, then the children in order) with
\* their byte offsets inside the extent, and stops without reading out of
\* bounds at a zero length byte or at the end of the extent, also when the
\* records span several sectors or leave fewer than 33 bytes of the extent.
C22_Entries ==
    \A i \in 1..Len(placed) :
        placed[i].kind = "directory" =>
            LET ref == DirectoryRef(placed[i].lba, RoundUpSector(placed[i].len))
                r == EntriesOf(sink, sink_len, ref)
                names == WrittenNames(placed[i].name)
            IN  /\ r.status = "ok"
                /\ Len(r.entries) = Len(names)
                /\ \A k \in 1..Len(names) :
                       /\ r.entries[k].record.name = names[k]
                       /\ r.entries[k].offset = RecordOffset(names, k)

\* C23: BootCatalogue::parse, after the validation and the default entry,
\* stops at the first 32-byte entry whose leading byte is 0x00 in every
\* parser state, also when the last header read has type 0x90; it accepts
\* 0x90 and 0x91 as section headers and goes on; an entry of any other
\* leading byte that arrives before any header ends the parse without success.
C23_CatalogueStops ==
    (IsSome(entry) /\ Unwrap(entry).call = "parse" /\ IsSome(Unwrap(entry).read)) =>
        LET e == Unwrap(entry)
            id == Unwrap(e.read)
        IN  /\ id = 0 => e.status = "ok"
            /\ id \in {144, 145} => e.status = "loop" /\ e.has_header
            /\ (id \notin {0, 144, 145} /\ ~e.has_header) => e.status \in {"err", "panic"}

\* the reserved descriptor range of a sink: D sectors from sector 16 on
ReservedRange(snk, d) == ReadExact(snk, SystemAreaSectors * 2048, d * 2048)
\* ... sector by sector, each without its trailing zeros
ReservedSectors(snk, d) ==
    [lba \in SystemAreaSectors..(SystemAreaSectors + d - 1) |-> SectorOf(snk, lba)]

BadName ==
    \E i \in 2..Len(InputFlat) :
        LET name == LastSegment(InputFlat[i].name)
        IN  ~CharsetIsValid("File", name) \/ Len(name) > 255

\* C25: format_new fails with an error, instead of emitting a directory
\* record, for any user-supplied file or directory name that breaks the
\* identifier rules: it neither completes nor aborts, and no directory is
\* written.
C25_BadNames ==
    BadName =>
        /\ pc \notin {"formatted", "open", "closed"}
        /\ pc = "panicked" => Unwrap(out).status = "err"
        /\ \A i \in 1..Len(placed) : placed[i].kind # "directory"

\* C26: DirectoryRecord::write emits exactly header.len bytes for every
\* record: the 33 header bytes, all identifier bytes, then a single 0x00 pad
\* byte when 33 + identifier length is odd and no pad otherwise, also for
\* identifiers that contain a space byte.
C26_WriteLength ==
    (pc = "record_written" /\ IsSome(rec)) =>
        LET r == Unwrap(rec)
            bytes == Unwrap(r.written)
            odd == (DirectoryRecordHeaderSize + Len(r.name)) % 2 = 1
        IN  /\ Len(bytes) = HeaderLen(r.record.header)
            /\ bytes = r.record.header \o r.name \o (IF odd THEN <<0>> ELSE <<>>)

\* C27: the root directory record embedded in the primary descriptor of every
\* formatted image is a well-formed 34-byte directory record: length byte 34,
\* directory flag (bit 1) set, identifier length 1 with identifier byte 0x00,
\* extent and data length equal to the root directory's LBA and size.
C27_RootRecord ==
    pc = "formatted" =>
        LET record == PvdDirRecord(ImagePvd)
            h == SubSeq(record, 1, 33)
            root == PlacedDir(<<>>)
        IN  /\ Len(record) = 34
            /\ HeaderLen(h) = 34
            /\ IsDirectory(h)
            /\ HeaderFileIdentifierLen(h) = 1
            /\ record[34] = 0
            /\ HeaderExtent(h) = root.offset
            /\ HeaderDataLen(h) = root.size

PlacedStructures == SelectSeq(placed, LAMBDA p : p.kind # "descriptors")

\* C29: in every image produced by format_new the byte ranges of distinct
\* structures never overlap: all file extents, directory extents, the L and
\* M path tables and the boot catalogue are pairwise disjoint and lie at or
\* after sector 16 + D, and the boot-info-table patch at offset 8 of the boot
\* image stays inside the boot image's extent.
C29_Disjoint ==
    pc = "formatted" =>
        LET ps == PlacedStructures
            d == Len(volume_descriptors) + 1
        IN  /\ \A i \in 1..Len(ps) : ps[i].start >= (SystemAreaSectors + d) * 2048
            /\ \A i, j \in 1..Len(ps) :
                   i < j => \/ ps[i].start + ps[i].len <= ps[j].start
                            \/ ps[j].start + ps[j].len <= ps[i].start
            /\ (IsSome(ops.el_torito) /\ Unwrap(ops.el_torito).boot_info_table) =>
                   PlacedBootImage.len >= 8 + Len(BootInfoTableBytes(0, 0, 0, 0, 0))

\* the backpatch has rewritten the `.` record of the directory at ref: the
\* first pass leaves extent 0 there, the backpatch stores the directory's LBA
Visited(ref) ==
    HeaderExtent(ReadExact(sink, ref.offset * 2048, DirectoryRecordHeaderSize)) = ref.offset

\* every child of the directory the first pass is about to emit has a placement
ChildrenPlaced ==
    files[idx].kind = "Directory" =>
        \A i \in 1..Len(files[idx].entries) :
            files[idx].entries[i].name \in DOMAIN written_files

\* C30: the directory passes of format_new always complete for a finite tree
\* with distinct sibling names: when a directory's records are emitted every
\* child already has a recorded placement, no step of the two passes panics,
\* the backpatch pops only directories it has not visited before, and it
\* ends with every directory visited and the cursor at the end of the root
\* directory's extent.
C30_PassesComplete ==
    [][(pc \in {"write_directory_data", "backpatch"}) =>
           /\ pc' # "panicked"
           /\ pc = "write_directory_data" => ChildrenPlaced
           /\ pc = "backpatch" => ~Visited(stack[Len(stack)].dir_ref)
           /\ pc' = "write_path_table" =>
                  /\ pos' = root_dir'.offset * 2048 + root_dir'.size
                  /\ \A d \in InputDirs : Visited(written_files[d.name])'
      ]_vars

====
